---- MODULE Spec2Model ----
(***************************************************************************)
(* Bucharest weather CLI: the response cache, the resilient fetch and the  *)
(* weather client.                                                         *)
(*                                                                         *)
(* Two programs of the repository are modelled, one per behaviour:         *)
(*   prog = "bwc"  bin/bwc.js: file cache (readCache / writeCache),        *)
(*                 fetchJson with an abort timer, getCurrent / getHourly / *)
(*                 getDaily.                                               *)
(*   prog = "api"  class WeatherAPI: NodeCache with stdTTL, the axios      *)
(*                 response interceptor of setupRetryLogic, getCurrent /   *)
(*                 getForecast / getAirQuality / getUVIndex and            *)
(*                 handleApiError.                                         *)
(* Time is in milliseconds, as Date.now() is. The model keeps no absolute   *)
(* clock: it keeps, for each cache entry, its age Date.now() - (time of    *)
(* its write), and for a pending timer the time remaining until it fires;  *)
(* every step that takes time d adds d to the ages.                        *)
(***************************************************************************)
EXTENDS Integers, Sequences, FiniteSets, TLC

VARIABLES
    prog,        \* which program this behaviour is a run of
    envSteps,    \* steps of the environment so far (clock, directory, files)
    calls,       \* number of calls started so far
    files,       \* bwc: cache directory, key -> file (text, age of mtime) or NoFile
    dirMode,     \* bwc: access to the cache directory: "rw", "ro" or "none"
    pc,          \* position of the call in progress
    op,          \* the operation in progress
    key,         \* its cache key
    armed,       \* a timeout timer is pending for the request in flight
    remaining,   \* the time remaining until that timer fires
    reqs,        \* upstream requests issued by the call in progress
    faults,      \* bwc: cache try-blocks of this call that threw and were caught
    result,      \* what the call returned or threw
    cache,       \* api: the NodeCache, key -> entry (value v, age) or NoEntry
    retryAttempts, \* api: config.retryAttempts
    useCache,    \* api: the useCache argument of the call in progress
    retry,       \* api: config.retry of the request in progress
    only500,     \* api: every failed attempt of this request answered HTTP 500
    delays,      \* api: the backoff delays this request has waited, in order
    lastError,   \* api: the error the request was rejected with, or Null
    before,      \* the cache entry under the key when the call started
    transients,  \* api: failed attempts of this request that were transient
    timedOut,    \* a timeout timer has fired during this call
    aiPc,        \* insights: position of the call on the AIInsights instance
    weather,     \* insights: the weather record passed in
    airQuality,  \* insights: the air quality passed in, or Null
    uvIndex,     \* insights: the UV index passed in, or Null
    aiOp,        \* insights: the method called
    aiResult,    \* insights: what it returned or threw
    appPc,       \* app: position of the `now` command of the CLI
    confTemplate, \* app: currentTemplate of the template configuration
    confTheme,   \* app: currentTheme of the template configuration
    currentTheme, \* app: currentTheme of the WeatherTemplates instance
    promises,    \* app: the three fetches of getCurrentWeather
    order,       \* app: the fetches in the order they settled
    failed,      \* app: the fetches whose upstream request failed
    out,         \* app: what the run has printed, in order
    ret,         \* app: what getCurrentWeather returned
    exitCode,    \* app: process.exitCode
    tplPc,       \* templates: position of the caller of a WeatherTemplates instance
    tplName,     \* templates: the templateName argument of renderTemplate
    tplWeather,  \* templates: its weatherData argument
    tplForecast, \* templates: its forecast argument, or Null
    tplInsights, \* templates: its insights argument, or Null
    tplOut,      \* templates: what renderTemplate returned or threw
    puPc,        \* helpers: position of the caller of a helper function
    puOp,        \* helpers: the function called
    puArg,       \* helpers: its argument
    puRes,       \* helpers: what it returned or threw
    cfgPc,       \* config: position of the caller of a TemplateConfig instance
    defaultConfig, \* config: this.defaultConfig, the objects it holds
    config,      \* config: this.config
    shared,      \* config: the objects this.config holds in common with this.defaultConfig
    configFile,  \* config: template-config.json as parsed, or NoFile
    cfgOp,       \* config: the last method called
    cfgArg,      \* config: its template (or preset) argument
    cfgRet,      \* config: what it returned
    cfgSteps,    \* config: number of methods called so far
    ccPc,        \* racing: position of each CLI invocation that uses one cache key
    ccFile,      \* racing: the cache file of the key, or NoFile
    ccData,      \* racing: the payload each invocation fetches on a miss
    ccRead,      \* racing: what readCache returned to each invocation
    ccWriters,   \* racing: the invocations in the order their writes completed
    subscribers, \* notifications: the keys of this.subscribers
    scheduledJobs, \* notifications: this.scheduledJobs, job id -> task and isActive
    tasks,       \* notifications: every cron task created so far, with its state
    notifFile,   \* notifications: notifications.json as parsed, or NoFile
    ntLoad,      \* notifications: the loadConfiguration the constructor started
    ntSaves,     \* notifications: the saveConfiguration calls whose writeFile is pending
    ntCaller,    \* notifications: position of the code that uses the manager
    ntAdded,     \* notifications: the users that code has added
    ntLast,      \* notifications: the last step taken
    ntOps        \* notifications: number of methods that code has called

callVars == <<pc, op, key, armed, remaining, reqs, result>>
bwcVars == <<files, dirMode, faults>>
apiConf == <<cache, retryAttempts>>
apiCall == <<useCache, retry, only500, delays, lastError>>
apiVars == <<cache, retryAttempts, useCache, retry, only500, delays, lastError>>
coreVars == <<prog, envSteps, calls, files, dirMode, pc, op, key, armed, remaining,
              reqs, faults, result, cache, retryAttempts, useCache, retry, only500,
              delays, lastError, before, transients, timedOut>>
aiVars == <<aiPc, weather, airQuality, uvIndex, aiOp, aiResult>>
appVars == <<appPc, confTemplate, confTheme, currentTheme, promises, order, failed,
             out, ret, exitCode>>
tplVars == <<tplPc, tplName, tplWeather, tplForecast, tplInsights, tplOut>>
pureVars == <<puPc, puOp, puArg, puRes>>
cfgVars == <<cfgPc, defaultConfig, config, shared, configFile, cfgOp, cfgArg, cfgRet, cfgSteps>>
ccVars == <<ccPc, ccFile, ccData, ccRead, ccWriters>>
ntVars == <<subscribers, scheduledJobs, tasks, notifFile, ntLoad, ntSaves, ntCaller,
            ntAdded, ntLast, ntOps>>
restVars == <<cfgVars, ccVars, ntVars>>
cfgOthers == <<coreVars, aiVars, appVars, tplVars, pureVars, ccVars, ntVars>>
ccOthers == <<coreVars, aiVars, appVars, tplVars, pureVars, cfgVars, ntVars>>
ntOthers == <<coreVars, aiVars, appVars, tplVars, pureVars, cfgVars, ccVars>>
laterVars == <<pureVars, restVars>>
vars == <<coreVars, aiVars, appVars, tplVars, laterVars>>
hist == <<before, transients, timedOut>>

-----------------------------------------------------------------------------
(* Bounds of the model *)

MaxEnvSteps == 2
MaxCalls == 2

-----------------------------------------------------------------------------
(* Values *)

Null == [type |-> "null"]
Thrown == [type |-> "throw"]
NoFile == [type |-> "nofile"]
NoOp == "none"
NoKey == "none"

Bodies == {"w1", "w2"}

Err(name, status) == [type |-> "error", name |-> name, status |-> status]

\* a parsed upstream body; trim is <<>> unless getHourly set data._trim
Obj(body, trim) == [type |-> "object", body |-> body, trim |-> trim]

IsObj(v) == v.type = "object"

-----------------------------------------------------------------------------
(* bin/bwc.js *)

CACHE_TTL_MS == 5 * 60 * 1000

FetchTimeoutMs == 8000

Units == {"c"}
Hours == {24}
DaysBwc == {7}

BwcKeys ==
    {<<"current", u>> : u \in Units}
        \cup {<<"hourly", u, h>> : u \in Units, h \in Hours}
        \cup {<<"daily", u, d>> : u \in Units, d \in DaysBwc}

\* a serialization that leaves out the field added after the fetch
JSONstringifyBodyOnly(v) == [type |-> "text", chars |-> <<v.body>>]

\* JSON.stringify of a payload: the text of its fields
JSONstringify(v) == [type |-> "text", chars |-> <<v.body>> \o v.trim]

GarbageText == [type |-> "text", chars |-> <<>>]

ParseOk(text) == Len(text.chars) >= 1

\* JSON.parse of a well-formed text
JSONparse(text) == Obj(Head(text.chars), Tail(text.chars))

\* readCache without the comparison of the age with the time to live
readCacheTryNoTtl(k) ==
    IF dirMode = "none" \/ files[k] = NoFile THEN Thrown
    ELSE IF ~ParseOk(files[k].text) THEN Thrown
    ELSE JSONparse(files[k].text)

\* the try block of readCache: Thrown when statSync, readFileSync or
\* JSON.parse throws
readCacheTry(k) ==
    IF dirMode = "none" \/ files[k] = NoFile THEN Thrown
    ELSE IF files[k].age > CACHE_TTL_MS THEN Null
    ELSE IF ~ParseOk(files[k].text) THEN Thrown
    ELSE JSONparse(files[k].text)

\* readCache without its catch block
readCacheNoCatch(k) == readCacheTry(k)

readCache(k) == IF readCacheTry(k) = Thrown THEN Null ELSE readCacheTry(k)

\* an age after time d has passed. The code only compares an age with the
\* time to live, so all ages beyond it are kept as one
Older(age, d, ttl) == IF age + d > ttl THEN ttl + 1 ELSE age + d

\* the files after time d has passed
AgedFiles(f, d) ==
    [k \in DOMAIN f |-> IF f[k] = NoFile THEN NoFile
                        ELSE [f[k] EXCEPT !.age = Older(f[k].age, d, CACHE_TTL_MS)]]

\* the try block of writeCache on the files f: mkdirSync or writeFileSync
\* throws when the directory cannot be written; otherwise the file of the key
\* holds the text and its modification time is now
writeCacheTry(f, k, data) ==
    IF dirMode # "rw" THEN Thrown
    ELSE [type |-> "written",
          files |-> [f EXCEPT ![k] = [type |-> "file",
                                      text |-> JSONstringify(data),
                                      age |-> 0]]]

writeCache(f, k, data) ==
    IF writeCacheTry(f, k, data) = Thrown
    THEN [type |-> "written", files |-> f]
    ELSE writeCacheTry(f, k, data)

\* data._trim = hours in getHourly
Trim(o, k) == IF o = "getHourly" THEN <<k[3]>> ELSE <<>>

\* getCurrent / getHourly / getDaily up to the first await: readCache, then
\* either return the cached payload or enter fetchJson (arm the abort timer
\* and issue the request)
BwcStart(o, k) ==
    /\ prog = "bwc"
    /\ pc = "idle"
    /\ calls < MaxCalls
    /\ calls' = calls + 1
    /\ op' = o
    /\ key' = k
    /\ faults' = IF readCacheTry(k) = Thrown THEN {"read"} ELSE {}
    /\ before' = files[k]
    /\ IF readCache(k) = Thrown
       THEN /\ pc' = "done"
            /\ result' = Err("CacheIOError", 0)
            /\ reqs' = 0
            /\ UNCHANGED <<armed, remaining>>
       ELSE IF IsObj(readCache(k))
       THEN /\ pc' = "done"
            /\ result' = readCache(k)
            /\ reqs' = 0
            /\ UNCHANGED <<armed, remaining>>
       ELSE /\ pc' = "fetch"
            /\ result' = Null
            /\ reqs' = 1
            /\ armed' = TRUE
            /\ remaining' = FetchTimeoutMs
    /\ UNCHANGED <<prog, envSteps, files, dirMode, apiVars, transients, timedOut>>

getCurrent(unit) == BwcStart("getCurrent", <<"current", unit>>)

getHourly(unit, hours) == BwcStart("getHourly", <<"hourly", unit, hours>>)

getDaily(unit, days) == BwcStart("getDaily", <<"daily", unit, days>>)

\* the times after which a response can arrive while the timer is pending:
\* at once, or as late as the timer's deadline (where it races with the timer)
Arrivals == {0, remaining}

\* fetchJson: `await fetch` settles with a response; a status that is not ok
\* throws Error("HTTP <status>"), and the finally block clears the timer
fetchResponse(d, status) ==
    /\ prog = "bwc"
    /\ pc = "fetch"
    /\ remaining' = remaining - d
    /\ files' = AgedFiles(files, d)
    /\ IF status = 200
       THEN /\ pc' = "body"
            /\ UNCHANGED <<armed, result>>
       ELSE /\ pc' = "done"
            /\ armed' = FALSE
            /\ result' = Err("HTTP", status)
    /\ UNCHANGED <<prog, envSteps, calls, dirMode, op, key, reqs, faults, apiVars, hist>>

\* fetchJson: `await res.json()` settles; the finally block clears the timer;
\* the caller writes the cache and returns the data
fetchBody(d, body, wellFormed) ==
    /\ prog = "bwc"
    /\ pc = "body"
    /\ remaining' = remaining - d
    /\ armed' = FALSE
    /\ pc' = "done"
    /\ IF ~wellFormed
       THEN /\ result' = Err("SyntaxError", 0)
            /\ files' = AgedFiles(files, d)
            /\ UNCHANGED faults
       ELSE LET data == Obj(body, Trim(op, key))
                w == writeCache(AgedFiles(files, d), key, data)
            IN  IF w = Thrown
                THEN /\ result' = Err("CacheIOError", 0)
                     /\ files' = AgedFiles(files, d)
                     /\ UNCHANGED faults
                ELSE /\ files' = w.files
                     /\ faults' = IF writeCacheTry(files, key, data) = Thrown
                                  THEN faults \cup {"write"}
                                  ELSE faults
                     /\ result' = data
    /\ UNCHANGED <<prog, envSteps, calls, dirMode, op, key, reqs, apiVars, hist>>

\* fetchJson: the timer fires, ac.abort() rejects the pending await with an
\* AbortError; the finally block runs
fetchAbort ==
    /\ prog = "bwc"
    /\ pc \in {"fetch", "body"}
    /\ armed
    /\ remaining' = 0
    /\ files' = AgedFiles(files, remaining)
    /\ armed' = FALSE
    /\ pc' = "done"
    /\ result' = Err("AbortError", 0)
    /\ timedOut' = TRUE
    /\ UNCHANGED <<prog, envSteps, calls, dirMode, op, key, reqs, faults, apiVars,
                   before, transients>>

\* run(): the invocation ends; the next one starts from the files on disk
bwcExit ==
    /\ prog = "bwc"
    /\ pc = "done"
    /\ pc' = "idle"
    /\ op' = NoOp
    /\ key' = NoKey
    /\ reqs' = 0
    /\ faults' = {}
    /\ result' = Null
    /\ before' = Null
    /\ timedOut' = FALSE
    /\ UNCHANGED <<prog, envSteps, calls, files, dirMode, armed, remaining, apiVars,
                   transients>>

\* the environment changes the access mode of the cache directory
Chmod(m) ==
    /\ prog = "bwc"
    /\ pc = "idle"
    /\ m # dirMode
    /\ dirMode' = m
    /\ envSteps < MaxEnvSteps
    /\ envSteps' = envSteps + 1
    /\ UNCHANGED <<prog, calls, files, callVars, faults, apiVars, hist>>

\* the environment leaves a cache file with content that does not parse
Corrupt(k) ==
    /\ prog = "bwc"
    /\ pc = "idle"
    /\ files[k] # NoFile
    /\ files[k].text # GarbageText
    /\ files' = [files EXCEPT ![k].text = GarbageText]
    /\ envSteps < MaxEnvSteps
    /\ envSteps' = envSteps + 1
    /\ UNCHANGED <<prog, calls, dirMode, callVars, faults, apiVars, hist>>

Steps == {1, CACHE_TTL_MS}

BwcStatuses == {200, 404, 500}

-----------------------------------------------------------------------------
(* class WeatherAPI *)

DefaultRetryAttempts == 3

cacheDuration == 300

timeout == 10000

RetryOptions == {1, DefaultRetryAttempts}

DaysApi == {5}

\* every call site of the repository leaves useCache at its default, true
UseCacheArgs == {TRUE}

ApiKeys ==
    {<<"current">>, <<"air_quality">>, <<"uv_index">>}
        \cup {<<"forecast", d>> : d \in DaysApi}

Statuses == {200, 400, 401, 404, 429, 500, 503}

NoEntry == [type |-> "noentry"]
Undefined == [type |-> "undefined"]

\* a normalized payload; fromCache is "false" in processedData of getCurrent
\* and "absent" in the payloads of the other three operations
ApiObj(body, fc) == [type |-> "object", body |-> body, fromCache |-> fc]

Processed(o, body) == ApiObj(body, IF o = "getCurrent" THEN "false" ELSE "absent")

\* an axios error: status 0 when there is no response
AxiosError(status, code) == [type |-> "error", status |-> status, code |-> code]

\* NodeCache: an entry expires stdTTL seconds after its set; it is expired
\* once that time lies before Date.now()
Expired(k) == cache[k] # NoEntry /\ cacheDuration * 1000 < cache[k].age

\* this.cache.get(key)
cacheGet(k) ==
    IF cache[k] = NoEntry \/ Expired(k) THEN Undefined ELSE cache[k].v

\* the cache after get(key): an expired entry is deleted
cacheAfterGet(k) == IF Expired(k) THEN [cache EXCEPT ![k] = NoEntry] ELSE cache

\* a set that stores nothing
cacheSetNothing(c, k, v) == c

\* this.cache.set(key, value) on cache c
cacheSet(c, k, v) == [c EXCEPT ![k] = [type |-> "entry", v |-> v, age |-> 0]]

\* the cache after time d has passed
AgedCache(c, d) ==
    [k \in DOMAIN c |-> IF c[k] = NoEntry THEN NoEntry
                        ELSE [c[k] EXCEPT !.age = Older(c[k].age, d, cacheDuration * 1000)]]

RECURSIVE Pow2(_)
Pow2(n) == IF n = 0 THEN 1 ELSE 2 * Pow2(n - 1)

\* a backoff whose exponent starts at zero
delayRetryRequestFromZero(r) == Pow2(r - 1) * 1000

\* Math.pow(2, config.retry) * 1000
delayRetryRequest(r) == Pow2(r) * 1000

\* a transient failure: HTTP 5xx, or the request aborted at its timeout
IsTransient(error) == error.status >= 500 \/ error.code = "ECONNABORTED"

\* the condition with a strict bound on the retry count
shouldRetryStrict(r, error) ==
    /\ r < retryAttempts
    /\ (error.status >= 500 \/ error.code = "ECONNABORTED")

\* the condition without the test of the kind of failure
shouldRetryAnyFailure(r, error) == r <= retryAttempts

\* the condition without the test of the status
shouldRetryOnlyAbort(r, error) ==
    /\ r <= retryAttempts
    /\ error.code = "ECONNABORTED"

\* the condition without the test of the error code
shouldRetryOnly5xx(r, error) ==
    /\ r <= retryAttempts
    /\ error.status >= 500

\* the condition of the interceptor, with r the incremented config.retry
shouldRetry(r, error) ==
    /\ r <= retryAttempts
    /\ (error.status >= 500 \/ error.code = "ECONNABORTED")

\* handleApiError without its final else branch: it returns undefined there
handleApiErrorNoElse(error) ==
    IF error.status = 401 THEN Err("credential", 0)
    ELSE IF error.status = 404 THEN Err("notFound", 0)
    ELSE IF error.status = 429 THEN Err("rateLimit", 0)
    ELSE IF error.code = "ECONNABORTED" THEN Err("timeout", 0)
    ELSE IF error.status = 0 THEN Err("network", 0)
    ELSE Undefined

\* handleApiError: the Error it throws, by category
handleApiError(error) ==
    IF error.status = 401 THEN Err("credential", 0)
    ELSE IF error.status = 404 THEN Err("notFound", 0)
    ELSE IF error.status = 429 THEN Err("rateLimit", 0)
    ELSE IF error.code = "ECONNABORTED" THEN Err("timeout", 0)
    ELSE IF error.status = 0 THEN Err("network", 0)
    ELSE Err("api", error.status)

\* the catch block of the operation: getCurrent and getForecast return
\* handleApiError(error), getAirQuality and getUVIndex warn and return null
catchError(o, error) ==
    IF o \in {"getCurrent", "getForecast"} THEN handleApiError(error) ELSE Null

\* a catch block that stores what it returns
cacheAfterCatchStoring(c, k, o, error) == cacheSet(c, k, catchError(o, error))

\* the cache c after the catch block of the operation: it stores nothing
cacheAfterCatch(c, k, o, error) == c

\* an operation up to its first await: look the key up when useCache, return
\* the cached payload on a hit, otherwise issue the request with retry: 0
ApiStart(o, k, uc) ==
    /\ prog = "api"
    /\ pc = "idle"
    /\ calls < MaxCalls
    /\ calls' = calls + 1
    /\ op' = o
    /\ key' = k
    /\ useCache' = uc
    /\ retry' = 0
    /\ only500' = TRUE
    /\ delays' = <<>>
    /\ lastError' = Null
    /\ before' = cache[k]
    /\ cache' = IF uc THEN cacheAfterGet(k) ELSE cache
    /\ IF uc /\ cacheGet(k) # Undefined
       THEN /\ pc' = "done"
            /\ result' = IF o = "getCurrent"
                         THEN [cacheGet(k) EXCEPT !.fromCache = "true"]
                         ELSE cacheGet(k)
            /\ reqs' = 0
            /\ UNCHANGED <<armed, remaining>>
       ELSE /\ pc' = "inflight"
            /\ result' = Null
            /\ reqs' = 1
            /\ armed' = TRUE
            /\ remaining' = timeout
    /\ UNCHANGED <<prog, envSteps, bwcVars, retryAttempts, transients, timedOut>>

apiGetCurrent(uc) == ApiStart("getCurrent", <<"current">>, uc)

getForecast(days, uc) == ApiStart("getForecast", <<"forecast", days>>, uc)

getAirQuality(uc) == ApiStart("getAirQuality", <<"air_quality">>, uc)

getUVIndex(uc) == ApiStart("getUVIndex", <<"uv_index">>, uc)

\* the error handler of the response interceptor and what follows it: count
\* the failure in config.retry, then either start the backoff delay or reject,
\* which the operation's catch block turns into its outcome. d is the time the
\* attempt took
Rejected(error, d) ==
    /\ retry' = retry + 1
    /\ only500' = (only500 /\ error.status = 500)
    /\ transients' = IF IsTransient(error) THEN transients + 1 ELSE transients
    /\ timedOut' = (timedOut \/ error.code = "ECONNABORTED")
    /\ armed' = FALSE
    /\ cache' = IF shouldRetry(retry + 1, error)
                THEN AgedCache(cache, d)
                ELSE cacheAfterCatch(AgedCache(cache, d), key, op, error)
    /\ IF shouldRetry(retry + 1, error)
       THEN /\ pc' = "backoff"
            /\ UNCHANGED <<result, lastError>>
       ELSE /\ pc' = "done"
            /\ lastError' = error
            /\ result' = catchError(op, error)
    /\ UNCHANGED <<prog, envSteps, calls, bwcVars, op, key, remaining, reqs,
                   retryAttempts, useCache, delays, before>>

\* the upstream answers. 2xx: the interceptor passes the response on, the
\* operation normalizes it, stores it in the cache and returns it; a body
\* without the expected fields makes the normalization throw into the catch
\* block. Any other status rejects
apiResponse(status, body, wellFormed) ==
    /\ prog = "api"
    /\ pc = "inflight"
    /\ IF status = 200
       THEN /\ pc' = "done"
            /\ armed' = FALSE
            /\ IF wellFormed
               THEN /\ cache' = cacheSet(cache, key, Processed(op, body))
                    /\ result' = Processed(op, body)
                    /\ UNCHANGED lastError
               ELSE /\ lastError' = AxiosError(0, "TypeError")
                    /\ result' = catchError(op, AxiosError(0, "TypeError"))
                    /\ cache' = cacheAfterCatch(cache, key, op,
                                                AxiosError(0, "TypeError"))
            /\ UNCHANGED <<prog, envSteps, calls, bwcVars, op, key, remaining, reqs,
                           retryAttempts, useCache, retry, only500, delays, hist>>
       ELSE Rejected(AxiosError(status, "ERR_BAD_RESPONSE"), 0)

\* no response within config.timeout: axios aborts the request and rejects
\* with code ECONNABORTED
apiTimeout ==
    /\ prog = "api"
    /\ pc = "inflight"
    /\ armed
    /\ Rejected(AxiosError(0, "ECONNABORTED"), remaining)

\* the connection fails: no response, another error code
apiNetworkError ==
    /\ prog = "api"
    /\ pc = "inflight"
    /\ Rejected(AxiosError(0, "ENOTFOUND"), 0)

\* the backoff delay has elapsed: the interceptor issues the request again
backoffElapsed ==
    /\ prog = "api"
    /\ pc = "backoff"
    /\ cache' = AgedCache(cache, delayRetryRequest(retry))
    /\ delays' = Append(delays, delayRetryRequest(retry))
    /\ pc' = "inflight"
    /\ reqs' = reqs + 1
    /\ armed' = TRUE
    /\ remaining' = timeout
    /\ UNCHANGED <<prog, envSteps, calls, bwcVars, op, key, result,
                   retryAttempts, useCache, retry, only500, lastError, hist>>

\* the caller has the outcome; the instance is ready for the next call
apiReturn ==
    /\ prog = "api"
    /\ pc = "done"
    /\ pc' = "idle"
    /\ op' = NoOp
    /\ key' = NoKey
    /\ reqs' = 0
    /\ result' = Null
    /\ useCache' = TRUE
    /\ retry' = 0
    /\ only500' = TRUE
    /\ delays' = <<>>
    /\ lastError' = Null
    /\ before' = Null
    /\ transients' = 0
    /\ timedOut' = FALSE
    /\ UNCHANGED <<prog, envSteps, calls, bwcVars, armed, remaining, cache,
                   retryAttempts>>

\* clearCache: this.cache.flushAll()
clearCache ==
    /\ prog = "api"
    /\ pc = "idle"
    /\ cache # [k \in ApiKeys |-> NoEntry]
    /\ cache' = [k \in ApiKeys |-> NoEntry]
    /\ UNCHANGED <<prog, envSteps, calls, bwcVars, callVars, retryAttempts,
                   apiCall, hist>>

-----------------------------------------------------------------------------
(* Specification *)

\* time passes between two calls
Tick(d) ==
    /\ pc = "idle"
    /\ envSteps < MaxEnvSteps
    /\ envSteps' = envSteps + 1
    /\ files' = AgedFiles(files, d)
    /\ cache' = AgedCache(cache, d)
    /\ UNCHANGED <<prog, calls, dirMode, callVars, faults, retryAttempts, apiCall, hist>>

InitCall ==
    /\ envSteps = 0
    /\ calls = 0
    /\ pc = "idle"
    /\ op = NoOp
    /\ key = NoKey
    /\ armed = FALSE
    /\ remaining = 0
    /\ reqs = 0
    /\ result = Null
    /\ files = [k \in BwcKeys |-> NoFile]
    /\ dirMode = "rw"
    /\ faults = {}
    /\ cache = [k \in ApiKeys |-> NoEntry]
    /\ useCache = TRUE
    /\ retry = 0
    /\ only500 = TRUE
    /\ delays = <<>>
    /\ lastError = Null
    /\ before = Null
    /\ transients = 0
    /\ timedOut = FALSE

\* a run of bin/bwc.js: the cache directory starts empty
InitBwc ==
    /\ prog = "bwc"
    /\ retryAttempts = DefaultRetryAttempts
    /\ InitCall

\* a WeatherAPI instance after its constructor
InitApi ==
    /\ prog = "api"
    /\ retryAttempts \in RetryOptions
    /\ InitCall

\* no call is made on an AIInsights instance
AiIdle ==
    /\ aiPc = "idle"
    /\ weather = Null
    /\ airQuality = Null
    /\ uvIndex = Null
    /\ aiOp = NoOp
    /\ aiResult = Null

\* no command of the CLI runs
AppIdle ==
    /\ appPc = "idle"
    /\ confTemplate = "classic"
    /\ confTheme = "default"
    /\ currentTheme = "default"
    /\ promises = Null
    /\ order = <<>>
    /\ failed = {}
    /\ out = <<>>
    /\ ret = Null
    /\ exitCode = 0

\* no helper function is called on its own
PureIdle ==
    /\ puPc = "idle"
    /\ puOp = NoOp
    /\ puArg = Null
    /\ puRes = Null

\* no TemplateConfig instance is constructed
CfgIdle ==
    /\ cfgPc = "idle"
    /\ defaultConfig = Null
    /\ config = Null
    /\ shared = Null
    /\ configFile = NoFile
    /\ cfgOp = NoOp
    /\ cfgArg = ""
    /\ cfgRet = Null
    /\ cfgSteps = 0

\* no invocations race on a cache key
CcIdle ==
    /\ ccPc = <<>>
    /\ ccFile = NoFile
    /\ ccData = <<>>
    /\ ccRead = <<>>
    /\ ccWriters = <<>>

\* no WeatherNotificationManager is constructed
NtIdle ==
    /\ subscribers = {}
    /\ scheduledJobs = <<>>
    /\ tasks = <<>>
    /\ notifFile = NoFile
    /\ ntLoad = Null
    /\ ntSaves = <<>>
    /\ ntCaller = "idle"
    /\ ntAdded = {}
    /\ ntLast = NoOp
    /\ ntOps = 0

RestIdle == CfgIdle /\ CcIdle /\ NtIdle

\* nothing of the other parts of the program runs
LaterIdle == PureIdle /\ RestIdle

\* no caller uses a WeatherTemplates instance directly
TplIdle ==
    /\ tplPc = "idle"
    /\ tplName = ""
    /\ tplWeather = Null
    /\ tplForecast = Null
    /\ tplInsights = Null
    /\ tplOut = Null

Init ==
    /\ InitBwc \/ InitApi
    /\ AiIdle
    /\ AppIdle
    /\ TplIdle
    /\ LaterIdle

\* a step of bin/bwc.js or of a WeatherAPI instance
CoreNext ==
    \/ \E u \in Units : getCurrent(u)
    \/ \E u \in Units, h \in Hours : getHourly(u, h)
    \/ \E u \in Units, d \in DaysBwc : getDaily(u, d)
    \/ \E t \in Arrivals, s \in BwcStatuses : fetchResponse(t, s)
    \/ \E t \in Arrivals, b \in Bodies, wf \in BOOLEAN : fetchBody(t, b, wf)
    \/ fetchAbort
    \/ bwcExit
    \/ \E m \in {"rw", "ro", "none"} : Chmod(m)
    \/ \E k \in BwcKeys : Corrupt(k)
    \/ \E d \in Steps : Tick(d)
    \/ \E uc \in UseCacheArgs : apiGetCurrent(uc)
    \/ \E d \in DaysApi, uc \in UseCacheArgs : getForecast(d, uc)
    \/ \E uc \in UseCacheArgs : getAirQuality(uc)
    \/ \E uc \in UseCacheArgs : getUVIndex(uc)
    \/ \E b \in Bodies, wf \in BOOLEAN : apiResponse(200, b, wf)
    \/ \E s \in Statuses \ {200} : apiResponse(s, "", TRUE)
    \/ apiTimeout
    \/ apiNetworkError
    \/ backoffElapsed
    \/ apiReturn
    \/ clearCache

Next == CoreNext /\ UNCHANGED <<aiVars, appVars, tplVars, laterVars>>

Spec == Init /\ [][Next]_vars

\* a pending timer fires: the abort timer of fetchJson, the timeout of axios
\* and the backoff timer of the interceptor
SpecFair ==
    /\ Spec
    /\ WF_coreVars(fetchAbort)
    /\ WF_coreVars(apiTimeout)
    /\ WF_coreVars(backoffElapsed)

-----------------------------------------------------------------------------
(* AIInsights (src/ai-insights.js) *)

\* Math.random() is drawn as r / RandomDen with r in Randoms
RandomDen == 12
Randoms == {0, 2, 3, 5, 6, 8, 9, 11}

\* the error of reading a property of undefined or null
TypeError == Err("TypeError", 0)

\* a weather record: `has` names the fields it carries
WeatherRecord(has, temp, wind, rain, desc, main) ==
    [type |-> "weather", has |-> has, temp |-> temp, humidity |-> 60,
     wind_speed |-> wind, pressure |-> 1013, rain_1h |-> rain, rain_3h |-> 0,
     snow_1h |-> 0, snow_3h |-> 0, description |-> desc, main |-> main]

IsWeather(w) == w.type = "weather"

\* JavaScript comparisons of a field with a number: false when the field is
\* undefined
Gt(w, f, n) == f \in w.has /\ w[f] > n
Lt(w, f, n) == f \in w.has /\ w[f] < n

\* this.clothingMatrix, in the order of Object.entries
clothingMatrix ==
    << [category |-> "freezing", min |-> -20, max |-> 0,  base |-> "echipament de iarna complet"],
       [category |-> "cold",     min |-> 0,   max |-> 10, base |-> "haina groasa, caciula, manusi"],
       [category |-> "cool",     min |-> 10,  max |-> 15, base |-> "jacheta, pulover"],
       [category |-> "mild",     min |-> 15,  max |-> 20, base |-> "jacheta usoara, bluza"],
       [category |-> "warm",     min |-> 20,  max |-> 25, base |-> "camasa, blugi"],
       [category |-> "hot",      min |-> 25,  max |-> 35, base |-> "imbracaminte usoara, tricou"],
       [category |-> "extreme",  min |-> 35,  max |-> 50, base |-> "minim de imbracaminte"] >>

\* the bands of the matrix that contain temp
Matching(temp) ==
    {i \in 1..Len(clothingMatrix) :
        temp >= clothingMatrix[i].min /\ temp < clothingMatrix[i].max}

\* the category of the last band that contains temp
getTemperatureCategoryLast(temp) ==
    IF Matching(temp) # {}
    THEN clothingMatrix[CHOOSE i \in Matching(temp) :
                            \A j \in Matching(temp) : j <= i].category
    ELSE "extreme"

\* getTemperatureCategory: the first band that contains temp, else by side
getTemperatureCategory(temp) ==
    IF Matching(temp) # {}
    THEN clothingMatrix[CHOOSE i \in Matching(temp) :
                            \A j \in Matching(temp) : i <= j].category
    ELSE IF temp < -20 THEN "freezing" ELSE "extreme"

\* this.clothingMatrix[category]
ClothingRule(category) ==
    IF \E i \in 1..Len(clothingMatrix) : clothingMatrix[i].category = category
    THEN clothingMatrix[CHOOSE i \in 1..Len(clothingMatrix) :
                            clothingMatrix[i].category = category]
    ELSE Undefined

\* the modifiers of getEnhancedClothingAdvice, in the order they are pushed
ClothingModifiers(w) ==
    (IF Gt(w, "wind_speed", 15) THEN <<"+ protectie vant">> ELSE <<>>)
    \o (IF Gt(w, "rain_1h", 0) \/ Gt(w, "rain_3h", 0)
        THEN <<"+ impermeabil">> ELSE <<>>)
    \o (IF Gt(w, "humidity", 80) THEN <<"+ materiale respirante">> ELSE <<>>)
    \o (IF Gt(w, "snow_1h", 0) \/ Gt(w, "snow_3h", 0)
        THEN <<"+ ghete antiderapante">> ELSE <<>>)

getEnhancedClothingAdvice(w) ==
    IF ~IsWeather(w) THEN TypeError
    ELSE IF ClothingRule(getTemperatureCategory(w.temp)) = Undefined
    THEN [type |-> "advice", base |-> "imbracaminte standard", modifiers |-> <<>>]
    ELSE [type |-> "advice",
          base |-> ClothingRule(getTemperatureCategory(w.temp)).base,
          modifiers |-> ClothingModifiers(w)]

\* String.prototype.toLowerCase on the descriptions and condition names
toLowerCase(str) ==
    CASE str = "Cer senin" -> "cer senin"
      [] str = "Rain" -> "rain"
      [] str = "Clear" -> "clear"
      [] str = "Clouds" -> "clouds"
      [] str = "Snow" -> "snow"
      [] OTHER -> str

\* String.prototype.includes on the lower-case descriptions
includes(str, word) ==
    \/ str = "ploaie usoara" /\ word = "ploaie"
    \/ str = "cer senin" /\ word = "senin"

\* getWeatherType that classifies from the condition name only
getWeatherTypeMainOnly(w) ==
    IF "description" \notin w.has \/ "main" \notin w.has THEN TypeError
    ELSE IF toLowerCase(w.main) = "rain" THEN [type |-> "kind", name |-> "rainy"]
    ELSE IF toLowerCase(w.main) = "clear" THEN [type |-> "kind", name |-> "sunny"]
    ELSE [type |-> "kind", name |-> "cloudy"]

\* getWeatherType(weather.description, weather.main)
getWeatherType(w) ==
    IF "description" \notin w.has \/ "main" \notin w.has THEN TypeError
    ELSE IF includes(toLowerCase(w.description), "ploaie")
            \/ toLowerCase(w.main) = "rain"
    THEN [type |-> "kind", name |-> "rainy"]
    ELSE IF includes(toLowerCase(w.description), "senin")
            \/ toLowerCase(w.main) = "clear"
    THEN [type |-> "kind", name |-> "sunny"]
    ELSE [type |-> "kind", name |-> "cloudy"]

\* this.activities.rainy
RainyActivities == <<"plimbare cu umbrela", "cinema", "muzee", "cafenele">>

\* this.activities.sunny and this.activities.cloudy, by temperature category
ByCategory(weatherType) ==
    IF weatherType = "sunny"
    THEN [c \in {"hot", "warm", "mild"} |->
            CASE c = "hot" -> <<"inot", "plaja urbana", "yoga in parc">>
              [] c = "warm" -> <<"cycling", "jogging", "sport in parc">>
              [] c = "mild" -> <<"plimbare lunga", "fotografie urbana", "picnic">>]
    ELSE IF weatherType = "cloudy"
    THEN [c \in {"warm", "mild"} |->
            CASE c = "warm" -> <<"ciclism urban", "alergare", "activitati in parc">>
              [] c = "mild" -> <<"explorare oras", "piete outdoor", "citit in parc">>]
    ELSE [c \in {} |-> <<>>]

\* the candidate list without the final fallback: empty where no list exists
CandidatesNoFallback(w, air) ==
    IF air # Null /\ air.aqi >= 4 THEN RainyActivities
    ELSE IF getTemperatureCategory(w.temp) \in DOMAIN ByCategory(getWeatherType(w).name)
    THEN ByCategory(getWeatherType(w).name)[getTemperatureCategory(w.temp)]
    ELSE IF getWeatherType(w).name = "rainy" THEN RainyActivities
    ELSE <<>>

\* the candidate list getContextualActivities selects from
Candidates(w, air) ==
    IF air # Null /\ air.aqi >= 4 THEN RainyActivities
    ELSE IF getTemperatureCategory(w.temp) \in DOMAIN ByCategory(getWeatherType(w).name)
    THEN ByCategory(getWeatherType(w).name)[getTemperatureCategory(w.temp)]
    ELSE IF getWeatherType(w).name = "rainy" THEN RainyActivities
    ELSE RainyActivities

\* list[Math.floor(Math.random() * list.length)], "undefined" out of range
Pick(list, r) ==
    IF (r * Len(list)) \div RandomDen + 1 \in 1..Len(list)
    THEN list[(r * Len(list)) \div RandomDen + 1]
    ELSE "undefined"

getContextualActivities(w, air, r) ==
    IF ~IsWeather(w) THEN TypeError
    ELSE IF getWeatherType(w) = TypeError THEN TypeError
    ELSE [type |-> "activity", selected |-> Pick(Candidates(w, air), r)]

getHealthRecommendations(w, air, uv) ==
    (IF Gt(w, "temp", 30) THEN <<"hidratare", "SPF", "evita 12-16">>
     ELSE IF Lt(w, "temp", 5) THEN <<"bauturi calde", "vitamina C", "extremitati">>
     ELSE <<>>)
    \o (IF Gt(w, "humidity", 80) THEN <<"aerisire", "materiale naturale">>
        ELSE IF Lt(w, "humidity", 30) THEN <<"hidratant", "umidificator">>
        ELSE <<>>)
    \o (IF air # Null /\ air.aqi >= 4 THEN <<"masca", "ramai in interior">> ELSE <<>>)
    \o (IF uv # Null /\ uv.uv_index > 7 THEN <<"SPF 50+", "palarie", "ochelari UV">>
        ELSE <<>>)

Alert(level, message) == [level |-> level, message |-> message]

\* the temperature rule with its warnings starting at the threshold
TemperatureAlertsInclusive(w) ==
    IF Lt(w, "temp", -5) THEN <<Alert("danger", "temperaturi extreme")>>
    ELSE IF Gt(w, "temp", 35) THEN <<Alert("danger", "canicula extrema")>>
    ELSE IF Lt(w, "temp", 1) THEN <<Alert("warning", "temperaturi sub zero")>>
    ELSE IF Gt(w, "temp", 29) THEN <<Alert("warning", "temperaturi ridicate")>>
    ELSE <<>>

\* the temperature rule of generateSmartAlerts
TemperatureAlerts(w) ==
    IF Lt(w, "temp", -5) THEN <<Alert("danger", "temperaturi extreme")>>
    ELSE IF Gt(w, "temp", 35) THEN <<Alert("danger", "canicula extrema")>>
    ELSE IF Lt(w, "temp", 0) THEN <<Alert("warning", "temperaturi sub zero")>>
    ELSE IF Gt(w, "temp", 30) THEN <<Alert("warning", "temperaturi ridicate")>>
    ELSE <<>>

\* the wind rule with two independent tests instead of else-if
WindAlertsBoth(w) ==
    (IF Gt(w, "wind_speed", 20) THEN <<Alert("danger", "vant foarte puternic")>>
     ELSE <<>>)
    \o (IF Gt(w, "wind_speed", 15) THEN <<Alert("warning", "vant puternic")>>
        ELSE <<>>)

\* the wind rule of generateSmartAlerts
WindAlerts(w) ==
    IF Gt(w, "wind_speed", 20) THEN <<Alert("danger", "vant foarte puternic")>>
    ELSE IF Gt(w, "wind_speed", 15) THEN <<Alert("warning", "vant puternic")>>
    ELSE <<>>

\* the alerts pushed by the five rules, in order
RuleAlerts(w, air, uv) ==
    TemperatureAlerts(w)
    \o WindAlerts(w)
    \o (IF Gt(w, "rain_1h", 10) THEN <<Alert("warning", "ploaie intensa")>> ELSE <<>>)
    \o (IF air # Null /\ air.aqi >= 4 THEN <<Alert("danger", "aer foarte poluat")>>
        ELSE <<>>)
    \o (IF uv # Null /\ uv.uv_index > 8 THEN <<Alert("warning", "indice UV ridicat")>>
        ELSE <<>>)

generateSmartAlerts(w, air, uv) ==
    IF ~IsWeather(w) THEN TypeError
    ELSE [type |-> "alerts",
          list |-> IF Len(RuleAlerts(w, air, uv)) > 0 THEN RuleAlerts(w, air, uv)
                   ELSE <<Alert("success", "conditii normale")>>]

\* this.locations
IndoorLocations == <<"AFI Palace", "Baneasa Mall", "ParkLake", "Promenada">>
Parks == <<"Herastrau", "Cismigiu", "Tineretului", "Bordei">>

getBucharestSpecificAdvice(w, r) ==
    IF Gt(w, "rain_1h", 0) \/ Gt(w, "rain_3h", 0) THEN Pick(IndoorLocations, r)
    ELSE IF Lt(w, "temp", 10) THEN "cafenele in Centrul Vechi"
    ELSE Pick(Parks, r)

\* generateInsights with r1 and r2 the two random draws it makes
generateInsights(w, forecastData, air, uv, r1, r2) ==
    IF ~IsWeather(w) THEN TypeError
    ELSE IF getContextualActivities(w, air, r1) = TypeError THEN TypeError
    ELSE [type |-> "insights",
          clothing |-> getEnhancedClothingAdvice(w),
          activities |-> getContextualActivities(w, air, r1),
          health |-> getHealthRecommendations(w, air, uv),
          alerts |-> generateSmartAlerts(w, air, uv),
          locations |-> getBucharestSpecificAdvice(w, r2)]

\* the inputs of the calls on an AIInsights instance
Temps == {-25, -20, -6, -5, -1, 0, 10, 15, 20, 25, 30, 31, 35, 36, 50, 55}
Winds == {5, 15, 16, 20, 21}
Rains == {0, 10, 11}
MinimalFields == {"temp", "humidity", "wind_speed", "pressure"}
Conditions ==
    { <<"cer senin", "Clear">>, <<"Cer senin", "Clouds">>, <<"ploaie usoara", "Rain">>,
      <<"nori imprastiati", "Clouds">>, <<"ninsoare", "Snow">> }
AirQualities == {Null} \cup {[type |-> "air", aqi |-> a] : a \in {3, 4}}
UvIndexes == {Null} \cup {[type |-> "uv", uv_index |-> u] : u \in {8, 9}}

\* the records the callers pass: the minimal record of the tests, and the
\* records of getCurrent and getMockData, with or without rain
WeatherRecords ==
    {WeatherRecord(MinimalFields, t, w, 0, "", "") : t \in Temps, w \in Winds}
    \cup {WeatherRecord(MinimalFields \cup {"description", "main"}, t, w, 0, c[1], c[2]) :
            t \in Temps, w \in Winds, c \in Conditions}
    \cup {WeatherRecord(MinimalFields \cup {"description", "main", "rain_1h"},
                        t, 5, q, c[1], c[2]) :
            t \in Temps, q \in Rains, c \in Conditions}

\* a caller calls a method of the instance
aiCall(o, value) ==
    /\ aiPc = "ready"
    /\ aiPc' = "done"
    /\ aiOp' = o
    /\ aiResult' = value
    /\ UNCHANGED <<coreVars, laterVars, tplVars, weather, airQuality, uvIndex, appVars>>

aiGenerateInsights(r1, r2) ==
    aiCall("generateInsights", generateInsights(weather, Null, airQuality, uvIndex, r1, r2))

aiGetEnhancedClothingAdvice ==
    aiCall("getEnhancedClothingAdvice", getEnhancedClothingAdvice(weather))

aiGetContextualActivities(r) ==
    aiCall("getContextualActivities", getContextualActivities(weather, airQuality, r))

aiGenerateSmartAlerts ==
    aiCall("generateSmartAlerts", generateSmartAlerts(weather, airQuality, uvIndex))

\* an AIInsights instance and the arguments of one call
InitAi ==
    /\ prog = "ai"
    /\ retryAttempts = DefaultRetryAttempts
    /\ InitCall
    /\ aiPc = "ready"
    /\ weather \in WeatherRecords
    /\ airQuality \in AirQualities
    /\ uvIndex \in UvIndexes
    /\ aiOp = NoOp
    /\ aiResult = Null
    /\ AppIdle
    /\ TplIdle
    /\ LaterIdle

NextAi ==
    \/ \E r1 \in Randoms, r2 \in {0, 11} : aiGenerateInsights(r1, r2)
    \/ aiGetEnhancedClothingAdvice
    \/ \E r \in Randoms : aiGetContextualActivities(r)
    \/ aiGenerateSmartAlerts

SpecAi == InitAi /\ [][NextAi]_vars

-----------------------------------------------------------------------------
(* WeatherTemplates (src/templates/weather-templates.js) *)

Slots == {"primary", "secondary", "accent", "success", "warning", "danger", "text"}

Theme(primary, secondary, accent, success, warning, danger, text) ==
    [primary |-> primary, secondary |-> secondary, accent |-> accent,
     success |-> success, warning |-> warning, danger |-> danger, text |-> text]

\* this.themes
themes ==
    [default   |-> Theme("blue", "cyan", "yellow", "green", "yellow", "red", "white"),
     dark      |-> Theme("gray", "white", "magenta", "green", "orange", "red", "gray"),
     ocean     |-> Theme("blue", "cyan", "white", "cyan", "yellow", "red", "blue"),
     forest    |-> Theme("green", "yellow", "white", "green", "orange", "red", "green"),
     sunset    |-> Theme("red", "orange", "yellow", "orange", "yellow", "red", "orange"),
     cyberpunk |-> Theme("magenta", "cyan", "green", "green", "yellow", "red", "magenta"),
     minimal   |-> Theme("white", "gray", "white", "white", "white", "white", "white"),
     rainbow   |-> Theme("rainbow", "rainbow", "rainbow", "green", "yellow", "red", "rainbow")]

ThemeIds == DOMAIN themes

\* the colour names that are style functions of chalk: chalk[name] of any
\* other name is undefined, and calling it raises a TypeError
ChalkColors ==
    {"black", "red", "green", "yellow", "blue", "magenta", "cyan", "white",
     "gray", "grey"}

\* the ten template ids of the switch of renderTemplate
TemplateIds ==
    {"classic", "modern", "dashboard", "minimal", "ascii", "retro", "map",
     "mobile", "matrix", "gauge"}

\* setTheme(theme): the theme the instance has afterwards
setTheme(current, theme) == IF theme \in ThemeIds THEN theme ELSE current

\* getColor(type) under theme t: theme[type] || theme.text
getColor(t, type) == themes[t][type]

\* the theme slots a layout applies through chalk[...] or as a border colour of
\* boxen, in order
SlotsUsed(layout, forecast) ==
    CASE layout = "classic" -> <<"primary", "secondary", "accent", "accent", "primary">>
      [] layout = "modern" -> <<"primary", "secondary", "primary", "secondary",
                                "secondary", "accent", "success", "accent">>
      [] layout = "dashboard" ->
            <<"primary", "accent">>
            \o (IF forecast # Null THEN <<"secondary">> ELSE <<>>)
            \o <<"primary", "success", "success", "success">>
      [] layout = "ascii" -> <<"primary", "accent", "secondary", "primary",
                               "success", "success", "success", "primary">>
      [] layout = "map" -> <<"primary", "secondary", "secondary", "accent",
                             "success", "success", "primary">>
      [] layout = "mobile" -> <<"primary", "accent", "secondary", "accent", "success">>
      [] layout = "gauge" -> <<"primary", "secondary", "secondary", "accent",
                               "success", "success", "primary">>
      [] OTHER -> <<>>

\* the colours a layout applies by name, whatever the theme
FixedColors(layout, w) ==
    CASE layout = "classic" -> <<"gray">>
      [] layout = "dashboard" -> <<"gray", "gray">>
      [] layout = "minimal" -> <<"white", "gray", "gray", "gray", "white">>
      [] layout = "retro" -> <<"green", "yellow", "white", "cyan", "green">>
      [] layout = "map" ->
            <<IF w.temp > 25 THEN "red" ELSE IF w.temp > 15 THEN "yellow" ELSE "blue">>
      [] layout = "mobile" -> <<"gray", "white">>
      [] layout = "matrix" -> <<"green", "cyan">>
      [] layout = "gauge" -> <<"red", "gray", "blue", "cyan">>
      [] OTHER -> <<>>

\* the layouts that call a string method of weatherData.description
NeedsDescription == {"retro", "mobile", "matrix"}

\* the colours of the theme t a layout applies
ThemeColors(layout, forecast, t) ==
    [i \in 1..Len(SlotsUsed(layout, forecast)) |->
        getColor(t, SlotsUsed(layout, forecast)[i])]

\* the layouts that read a field of insights (renderMobileCards reads none)
NeedsInsights == TemplateIds \ {"mobile"}

\* one render method: the text it returns, or the TypeError it raises
render(layout, w, forecast, ins, t) ==
    IF ~IsWeather(w) THEN TypeError
    ELSE IF layout \in NeedsInsights /\ (ins = Null \/ ins.type # "insights") THEN TypeError
    ELSE IF layout \in NeedsDescription /\ "description" \notin w.has THEN TypeError
    ELSE IF \E i \in 1..Len(ThemeColors(layout, forecast, t)) :
                ThemeColors(layout, forecast, t)[i] \notin ChalkColors
    THEN TypeError
    ELSE [type |-> "text", layout |-> layout,
          colors |-> FixedColors(layout, w) \o ThemeColors(layout, forecast, t),
          weather |-> w,
          forecast |-> IF layout = "dashboard" THEN forecast ELSE Null,
          insights |-> IF layout \in NeedsInsights THEN ins ELSE Null]

\* renderTemplate whose default case renders nothing
renderTemplateNoDefault(templateName, w, forecast, ins, t) ==
    IF templateName \in TemplateIds THEN render(templateName, w, forecast, ins, t)
    ELSE Undefined

\* renderTemplate(templateName, weatherData, forecast, insights) under theme t
renderTemplate(templateName, w, forecast, ins, t) ==
    IF templateName \in TemplateIds THEN render(templateName, w, forecast, ins, t)
    ELSE render("classic", w, forecast, ins, t)

\* the forecast a caller passes: five days of getForecast
SampleForecast == [type |-> "forecast", days |-> 5]

\* template and theme ids outside the enumerated ones
UnknownTemplateIds == {"neon", "fancy"}
UnknownThemeIds == {"neon"}

\* the records a caller passes: records of getCurrent, and the minimal record
TplWeatherRecords ==
    {WeatherRecord(MinimalFields \cup {"description", "main"}, t, 5, 0, c[1], c[2]) :
        t \in {10, 20, 30}, c \in {<<"cer senin", "Clear">>, <<"ploaie usoara", "Rain">>}}
    \cup {WeatherRecord(MinimalFields, 20, 5, 0, "", "")}

\* the insights a caller passes for a record: those of generateInsights, or none
TplInsights(w) ==
    {Null} \cup (IF "description" \in w.has
                 THEN {generateInsights(w, Null, Null, Null, 0, 0)}
                 ELSE {})

\* templates.setTheme(theme)
tplSetTheme(theme) ==
    /\ tplPc = "ready"
    /\ currentTheme' = setTheme(currentTheme, theme)
    /\ UNCHANGED <<coreVars, laterVars, aiVars, tplVars, appPc, confTemplate, confTheme, promises,
                   order, failed, out, ret, exitCode>>

\* templates.renderTemplate(templateName, weatherData, forecast, insights)
tplRenderTemplate(templateName) ==
    /\ tplPc = "ready"
    /\ tplPc' = "done"
    /\ tplName' = templateName
    /\ tplOut' = renderTemplate(templateName, tplWeather, tplForecast, tplInsights,
                                currentTheme)
    /\ UNCHANGED <<coreVars, laterVars, aiVars, appVars, tplWeather, tplForecast, tplInsights>>

\* a new WeatherTemplates instance and the arguments its caller will pass
InitTpl ==
    /\ prog = "templates"
    /\ retryAttempts = DefaultRetryAttempts
    /\ InitCall
    /\ AiIdle
    /\ AppIdle
    /\ LaterIdle
    /\ tplPc = "ready"
    /\ tplName = ""
    /\ tplWeather \in TplWeatherRecords
    /\ tplForecast \in {Null, SampleForecast}
    /\ tplInsights \in TplInsights(tplWeather)
    /\ tplOut = Null

NextTpl ==
    \/ \E theme \in ThemeIds \cup UnknownThemeIds : tplSetTheme(theme)
    \/ \E templateName \in TemplateIds \cup UnknownTemplateIds :
          tplRenderTemplate(templateName)

SpecTpl == InitTpl /\ [][NextTpl]_vars

-----------------------------------------------------------------------------
(* BucharestWeatherApp.getCurrentWeather (src/index.js) under the `now`
   command of the CLI (src/cli.js) *)

Sources == {"current", "air", "uv"}

Pending == [v |-> Undefined, st |-> "pending"]
Fulfilled(v) == [v |-> v, st |-> "fulfilled"]
RejectedWith(e) == [v |-> e, st |-> "rejected"]

\* the record getCurrent resolves to
LiveData ==
    WeatherRecord(MinimalFields \cup {"description", "main"}, 31, 16, 0, "cer senin", "Clear")

\* getMockData()
MockData ==
    [WeatherRecord(MinimalFields \cup {"description", "main"}, 22, 3, 0,
                   "partial innorat", "Clouds") EXCEPT !.humidity = 65]

\* the failures of an upstream request once its retries are over
UpstreamErrors ==
    {AxiosError(s, "") : s \in {401, 404, 429, 500}}
    \cup {AxiosError(0, "ECONNABORTED"), AxiosError(0, "")}

\* error.message.includes('API key')
MessageHasApiKey(error) == error.type = "error" /\ error.name = "credential"

\* the element of Promise.allSettled for a promise p: its value is undefined
\* when p was rejected
SettledValue(p) == IF p.st = "fulfilled" THEN p.v ELSE Undefined

\* what the catch block of getCurrentWeather prints and returns for error
CatchBlock(printed, error, templateName, t, r1, r2) ==
    LET seen == printed \o <<"fail", error.name>>
        mockInsights == generateInsights(MockData, Null, Null, Null, r1, r2)
        shown == renderTemplate(IF templateName = "" THEN "classic" ELSE templateName,
                                MockData, Null, mockInsights, t)
    IN  IF ~MessageHasApiKey(error) THEN [out |-> seen, ret |-> Undefined]
        ELSE IF mockInsights = TypeError \/ shown = TypeError
        THEN [out |-> seen \o <<"demo">>, ret |-> TypeError]
        ELSE [out |-> seen \o <<"demo", "weather:mock">>, ret |-> Undefined]

\* getCurrentWeather from the return of Promise.allSettled on: what it prints
\* and what it returns (an error: the promise it returned is rejected)
AfterAllSettled(p, templateName, t, r1, r2) ==
    LET current == SettledValue(p.current)
        air == IF p.air.st = "fulfilled" THEN p.air.v ELSE Null
        uv == IF p.uv.st = "fulfilled" THEN p.uv.v ELSE Null
        insights == generateInsights(current, Null, air, uv, r1, r2)
        shown == IF insights = TypeError THEN TypeError
                 ELSE renderTemplate(templateName, current, Null, insights, t)
    IN  IF shown = TypeError
        THEN CatchBlock(<<"succeed">>, TypeError, templateName, t, r1, r2)
        ELSE [out |-> <<"succeed", "weather:live">>,
              ret |-> [type |-> "result", current |-> current, air |-> air,
                       uv |-> uv, insights |-> insights]]

\* the `now` command: cli.init(), then displayWeatherWithTemplate calls
\* getCurrentWeather, which applies the configured theme and issues the three
\* fetches
cliNow ==
    /\ appPc = "start"
    /\ appPc' = "fetching"
    /\ currentTheme' = setTheme(currentTheme, confTheme)
    /\ promises' = [s \in Sources |-> Pending]
    /\ UNCHANGED <<coreVars, laterVars, tplVars, aiVars, confTemplate, confTheme, order, failed, out, ret,
                   exitCode>>

\* the promise of source s settles with p
settle(s, p, upstreamFailed) ==
    /\ appPc = "fetching"
    /\ promises[s].st = "pending"
    /\ promises' = [promises EXCEPT ![s] = p]
    /\ order' = Append(order, s)
    /\ failed' = IF upstreamFailed THEN failed \cup {s} ELSE failed
    /\ UNCHANGED <<coreVars, laterVars, tplVars, aiVars, appPc, confTemplate, confTheme, currentTheme, out,
                   ret, exitCode>>

\* getCurrent resolves
currentFulfilled == settle("current", Fulfilled(LiveData), FALSE)

\* getCurrent rejects with the error of handleApiError
currentRejected(error) ==
    settle("current", RejectedWith(catchError("getCurrent", error)), TRUE)

\* getAirQuality resolves with the air quality
airFulfilled(a) == settle("air", Fulfilled(a), FALSE)

\* the request of getAirQuality fails: its catch block returns null
airFailed(error) == settle("air", Fulfilled(catchError("getAirQuality", error)), TRUE)

\* getUVIndex resolves with the UV index
uvFulfilled(u) == settle("uv", Fulfilled(u), FALSE)

\* the request of getUVIndex fails: its catch block returns null
uvFailed(error) == settle("uv", Fulfilled(catchError("getUVIndex", error)), TRUE)

\* Promise.allSettled returns: getCurrentWeather runs to its end
resumeGetCurrentWeather(r1, r2) ==
    /\ appPc = "fetching"
    /\ \A s \in Sources : promises[s].st # "pending"
    /\ appPc' = "returned"
    /\ out' = out \o AfterAllSettled(promises, confTemplate, currentTheme, r1, r2).out
    /\ ret' = AfterAllSettled(promises, confTemplate, currentTheme, r1, r2).ret
    /\ UNCHANGED <<coreVars, laterVars, tplVars, aiVars, confTemplate, confTheme, currentTheme, promises,
                   order, failed, exitCode>>

\* what displayWeatherWithTemplate prints after getCurrentWeather has returned
\* weatherResult, with the theme cli.init() applied
DisplayTail(weatherResult, template, t) ==
    IF weatherResult.type = "error" THEN <<"fail", weatherResult.name>>
    ELSE IF weatherResult.type # "result" THEN <<"fail", TypeError.name>>
    ELSE IF renderTemplate(template, weatherResult.current, Null,
                           weatherResult.insights, t) = TypeError
    THEN <<"succeed", "fail", TypeError.name>>
    ELSE <<"succeed", "weather:live">>

\* displayWeatherWithTemplate runs to its end and the process exits
displayWeatherWithTemplate ==
    /\ appPc = "returned"
    /\ appPc' = "exited"
    /\ out' = out \o DisplayTail(ret, confTemplate, setTheme("default", confTheme))
    /\ UNCHANGED <<coreVars, laterVars, tplVars, aiVars, confTemplate, confTheme, currentTheme, promises,
                   order, failed, ret, exitCode>>

\* the configurations the runs are started with
ConfTemplates == {"classic", "dashboard", "minimal", "mobile"}
ConfThemes == {"default", "dark", "sunset", "rainbow"}

\* a run of the `now` command with the template configuration of the user
InitApp ==
    /\ prog = "app"
    /\ retryAttempts = DefaultRetryAttempts
    /\ InitCall
    /\ AiIdle
    /\ TplIdle
    /\ LaterIdle
    /\ appPc = "start"
    /\ confTemplate \in ConfTemplates
    /\ confTheme \in ConfThemes
    /\ currentTheme = "default"
    /\ promises = Null
    /\ order = <<>>
    /\ failed = {}
    /\ out = <<>>
    /\ ret = Null
    /\ exitCode = 0

NextApp ==
    \/ cliNow
    \/ currentFulfilled
    \/ \E e \in UpstreamErrors : currentRejected(e)
    \/ \E a \in AirQualities \ {Null} : airFulfilled(a)
    \/ \E e \in UpstreamErrors : airFailed(e)
    \/ \E u \in UvIndexes \ {Null} : uvFulfilled(u)
    \/ \E e \in UpstreamErrors : uvFailed(e)
    \/ \E r1 \in {0, 11}, r2 \in {0, 11} : resumeGetCurrentWeather(r1, r2)
    \/ displayWeatherWithTemplate

SpecApp == InitApp /\ [][NextApp]_vars

-----------------------------------------------------------------------------
(* Helper functions: the gauges of WeatherTemplates and the daily aggregation
   of WeatherAPI.getForecast *)

RangeError == Err("RangeError", 0)

\* String.prototype.repeat(count): a string of count characters, or the
\* RangeError of a negative count
repeat(count) ==
    IF count < 0 THEN RangeError ELSE [type |-> "string", length |-> count]

\* Math.max(0, Math.min(100, num / den * 100)), as a fraction over den
Percentage(num, den) ==
    IF num * 100 < 0 THEN 0
    ELSE IF num * 100 > 100 * den THEN 100 * den
    ELSE num * 100

\* '[' + '█'.repeat(filled) + '░'.repeat(empty) + '] ' + label
Gauge(filled, label) ==
    IF repeat(filled).type = "error" \/ repeat(20 - filled).type = "error"
    THEN RangeError
    ELSE [type |-> "gauge", filled |-> repeat(filled).length,
          empty |-> repeat(20 - filled).length, label |-> label]

\* createHumidityGauge with the clamping of the other two gauges
createHumidityGaugeClamped(humidity) ==
    Gauge(Percentage(humidity, 100) \div (5 * 100), humidity)

\* createTempGauge(temp): min -20, max 50
createTempGauge(temp) == Gauge(Percentage(temp - (-20), 50 - (-20)) \div (5 * 70), temp)

\* createWindGauge(windSpeed): max 30
createWindGauge(windSpeed) == Gauge(Percentage(windSpeed, 30) \div (5 * 30), windSpeed)

\* createHumidityGauge(humidity): Math.floor(humidity / 5), not clamped
createHumidityGauge(humidity) == Gauge(humidity \div 5, humidity)

\* the number of elements of arr equal to x: arr.filter(v => v === x).length
Count(arr, x) == Cardinality({i \in 1..Len(arr) : arr[i] = x})

\* Array.prototype.sort with the comparator count(a) - count(b): a stable
\* sort, so x goes behind every element whose count is not greater
RECURSIVE InsertByCount(_, _, _)
InsertByCount(sorted, x, arr) ==
    IF sorted = <<>> THEN <<x>>
    ELSE IF Count(arr, sorted[Len(sorted)]) <= Count(arr, x) THEN Append(sorted, x)
    ELSE Append(InsertByCount(SubSeq(sorted, 1, Len(sorted) - 1), x, arr),
                sorted[Len(sorted)])

RECURSIVE SortByCount(_, _)
SortByCount(arr, n) ==
    IF n = 0 THEN <<>> ELSE InsertByCount(SortByCount(arr, n - 1), arr[n], arr)

\* getMostFrequent that takes the first element of the sorted array
getMostFrequentShift(arr) ==
    IF arr = <<>> THEN Undefined ELSE SortByCount(arr, Len(arr))[1]

\* getMostFrequent(arr): arr.sort(...).pop()
getMostFrequent(arr) ==
    IF arr = <<>> THEN Undefined ELSE SortByCount(arr, Len(arr))[Len(arr)]

\* temperatures are held in tenths of a degree
\* Math.round of a number of tenths: halves go up
MathRound(tenths) == (tenths + 5) \div 10

RECURSIVE Sum(_)
Sum(seq) == IF seq = <<>> THEN 0 ELSE seq[1] + Sum(Tail(seq))

Min(seq) == CHOOSE x \in {seq[i] : i \in 1..Len(seq)} : \A i \in 1..Len(seq) : x <= seq[i]
Max(seq) == CHOOSE x \in {seq[i] : i \in 1..Len(seq)} : \A i \in 1..Len(seq) : x >= seq[i]

\* the mean truncated instead of rounded
RoundMeanTrunc(temps) == Sum(temps) \div (10 * Len(temps))

\* Math.round(temps.reduce((a, b) => a + b, 0) / temps.length)
RoundMean(temps) == (2 * Sum(temps) + 10 * Len(temps)) \div (20 * Len(temps))

\* the keys of dailyData in insertion order: the dates in order of first sample
RECURSIVE Dates(_)
Dates(forecasts) ==
    IF forecasts = <<>> THEN <<>>
    ELSE LET init == Dates(SubSeq(forecasts, 1, Len(forecasts) - 1))
             d == forecasts[Len(forecasts)].date
         IN  IF \E i \in 1..Len(init) : init[i] = d THEN init ELSE Append(init, d)

\* dailyData[date]: the samples pushed under one date, in order
IsDate(item, date) == item.date = date
DailyData(forecasts, date) ==
    LET Same(item) == IsDate(item, date) IN SelectSeq(forecasts, Same)

\* one element of processedForecast
ForecastDay(day, date) ==
    LET temps == [i \in 1..Len(day) |-> day[i].temp]
        descriptions == [i \in 1..Len(day) |-> day[i].description]
    IN  [date |-> date,
         temp_min |-> MathRound(Min(temps)),
         temp_max |-> MathRound(Max(temps)),
         temp_avg |-> RoundMean(temps),
         description |-> getMostFrequent(descriptions),
         hourly |-> [i \in 1..Len(day) |-> MathRound(day[i].temp)]]

\* Object.values(dailyData).slice(0, days).map(...)
processedForecast(forecasts, days) ==
    LET dates == Dates(forecasts)
        kept == SubSeq(dates, 1, IF Len(dates) < days THEN Len(dates) ELSE days)
    IN  [i \in 1..Len(kept) |-> ForecastDay(DailyData(forecasts, kept[i]), kept[i])]

\* the values the callers pass
GaugeTemps == -40..70
GaugeWinds == 0..45
GaugeHumidities == -10..115
Descriptions == {"cer senin", "nori imprastiati", "ploaie usoara"}
MaxDescriptions == 4
DescriptionLists ==
    UNION {[1..n -> Descriptions] : n \in 0..MaxDescriptions}
SampleTemps == {-15, -5, 180, 220, 225, 250}
SampleDates == 1..3
MaxSamples == 3
Samples ==
    {[date |-> d, temp |-> t, description |-> "cer senin"] : d \in SampleDates, t \in SampleTemps}
\* response.data.list: the samples in order of time
SampleLists ==
    {l \in UNION {[1..n -> Samples] : n \in 0..MaxSamples} :
        \A i \in 1..(Len(l) - 1) : l[i].date <= l[i + 1].date}
DaysRequested == {1, 2}

\* a caller calls the helper chosen at the start
pureCall(o, value) ==
    /\ puPc = "ready"
    /\ puOp = o
    /\ puPc' = "done"
    /\ puRes' = value
    /\ UNCHANGED <<coreVars, aiVars, appVars, tplVars, restVars, puOp, puArg>>

callCreateTempGauge == pureCall("createTempGauge", createTempGauge(puArg))
callCreateWindGauge == pureCall("createWindGauge", createWindGauge(puArg))
callCreateHumidityGauge == pureCall("createHumidityGauge", createHumidityGauge(puArg))
callGetMostFrequent == pureCall("getMostFrequent", getMostFrequent(puArg))
callProcessedForecast ==
    pureCall("getForecast", processedForecast(puArg.list, puArg.days))

\* the helper a caller is about to call and its argument
InitPure ==
    /\ prog = "helpers"
    /\ retryAttempts = DefaultRetryAttempts
    /\ InitCall
    /\ AiIdle
    /\ AppIdle
    /\ TplIdle
    /\ RestIdle
    /\ puPc = "ready"
    /\ \/ puOp = "createTempGauge" /\ puArg \in GaugeTemps
       \/ puOp = "createWindGauge" /\ puArg \in GaugeWinds
       \/ puOp = "createHumidityGauge" /\ puArg \in GaugeHumidities
       \/ puOp = "getMostFrequent" /\ puArg \in DescriptionLists
       \/ puOp = "getForecast"
          /\ puArg \in {[list |-> l, days |-> d] : l \in SampleLists, d \in DaysRequested}
    /\ puRes = Null

NextPure ==
    \/ callCreateTempGauge
    \/ callCreateWindGauge
    \/ callCreateHumidityGauge
    \/ callGetMostFrequent
    \/ callProcessedForecast

SpecPure == InitPure /\ [][NextPure]_vars

-----------------------------------------------------------------------------
(* TemplateConfig (src/templates/template-config.js)

   this.config and this.defaultConfig are objects of objects. The spread
   { ...this.defaultConfig } copies the references of the inner objects, not
   the objects: an assignment to a key of an inner object that both hold
   (config.presets[name] = ..., config.customSettings.language = ...,
   config.templates[t].customizations = ...) changes both. `shared` records
   which inner objects both hold; JSON.parse returns objects nobody else
   holds. *)

MaxConfigOps == 3

\* { ...a, ...b }
Spread(a, b) ==
    [k \in (DOMAIN a) \cup (DOMAIN b) |-> IF k \in DOMAIN b THEN b[k] ELSE a[k]]

Preset(template, theme, settings) ==
    [theme |-> theme, template |-> template, settings |-> settings]

TemplateEntry(customizations) == [customizations |-> customizations, enabled |-> TRUE]

\* defaultConfig.customSettings as the constructor writes it
FactorySettings ==
    [showTimestamp |-> TRUE, showCache |-> FALSE, animationsEnabled |-> TRUE,
     compactMode |-> FALSE, language |-> "ro", units |-> "metric",
     timezone |-> "Europe/Bucharest", updateInterval |-> 300,
     notificationsEnabled |-> TRUE, soundEffects |-> FALSE]

\* defaultConfig.templates as the constructor writes it
FactoryTemplates ==
    [minimal   |-> TemplateEntry([showOnlyEssentials |-> TRUE, useEmojis |-> FALSE,
                                  compactLayout |-> TRUE]),
     classic   |-> TemplateEntry([borderStyle |-> "double", padding |-> 1, margin |-> 1,
                                  showHeader |-> TRUE, showFooter |-> TRUE,
                                  colorOverrides |-> <<>>]),
     modern    |-> TemplateEntry([cardWidth |-> 25, cardSpacing |-> 2,
                                  showShadows |-> TRUE, roundedCorners |-> TRUE]),
     dashboard |-> TemplateEntry([showSystemInfo |-> TRUE, showForecastTable |-> TRUE,
                                  maxForecastDays |-> 5, refreshRate |-> "real-time"])]

\* defaultConfig.themes
FactoryThemes == [t \in ThemeIds |-> [enabled |-> TRUE]]

\* defaultConfig.presets as the constructor writes it
FactoryPresets ==
    [developer    |-> Preset("dashboard", "cyberpunk",
                             [showCache |-> TRUE, animationsEnabled |-> FALSE,
                              compactMode |-> TRUE]),
     casual       |-> Preset("modern", "default",
                             [showTimestamp |-> FALSE, animationsEnabled |-> TRUE,
                              soundEffects |-> TRUE]),
     minimal_user |-> Preset("minimal", "minimal",
                             [compactMode |-> TRUE, showOnlyEssentials |-> TRUE]),
     artistic     |-> Preset("ascii", "rainbow",
                             [animationsEnabled |-> TRUE, soundEffects |-> TRUE])]

Config(currentTemplate, theme, customSettings, templates, presets) ==
    [currentTheme |-> theme, themes |-> FactoryThemes,
     currentTemplate |-> currentTemplate, customSettings |-> customSettings,
     templates |-> templates, presets |-> presets]

\* this.defaultConfig after the constructor
FactoryConfig ==
    Config("classic", "default", FactorySettings, FactoryTemplates, FactoryPresets)

\* the keys of a configuration whose values are objects (typeof ... === 'object')
ObjectKeys == {"customSettings", "templates", "themes", "presets"}

\* this.config holds every inner object of this.defaultConfig: { ...this.defaultConfig }
AllShared ==
    [customSettings |-> TRUE, templates |-> DOMAIN FactoryTemplates, presets |-> TRUE]

mergeConfigs(default, userConfig) ==
    [k \in (DOMAIN default) \cup (DOMAIN userConfig) |->
        IF k \notin DOMAIN userConfig THEN default[k]
        ELSE IF k \in ObjectKeys THEN Spread(default[k], userConfig[k])
        ELSE userConfig[k]]

\* the inner objects of mergeConfigs(this.defaultConfig, userConfig) that are
\* objects of this.defaultConfig
sharedAfterMerge(userConfig) ==
    [customSettings |-> "customSettings" \notin DOMAIN userConfig,
     templates |-> IF "templates" \in DOMAIN userConfig
                   THEN (DOMAIN FactoryTemplates) \ (DOMAIN userConfig.templates)
                   ELSE DOMAIN FactoryTemplates,
     presets |-> "presets" \notin DOMAIN userConfig]

\* the arguments the callers pass
ConfigTemplateArgs == TemplateIds \cup {"neon"}
ConfigThemeArgs == {"dark", "rainbow", "neon"}
SettingsArgs == {[language |-> "en"], [compactMode |-> TRUE, units |-> "imperial"]}
CustomizationArgs == {[padding |-> 2], [cardWidth |-> 30, showShadows |-> FALSE]}
CustomPresetNames == {"mine"}
PresetArgs == (DOMAIN FactoryPresets) \cup CustomPresetNames \cup {"nobody"}
\* the answers of the prompt of interactiveSetup, updateInterval after parseInt
Answers ==
    {[theme |-> "ocean", template |-> t, showTimestamp |-> st, animationsEnabled |-> TRUE,
      compactMode |-> FALSE, language |-> "en", updateInterval |-> 600] :
        t \in {"modern", "retro"}, st \in BOOLEAN}

\* template-config.json as an earlier session left it
SavedFiles ==
    {FactoryConfig,
     [FactoryConfig EXCEPT !.currentTemplate = "modern", !.currentTheme = "dark"],
     [FactoryConfig EXCEPT !.presets =
         Spread(@, "mine" :> Preset("minimal", "dark", [language |-> "en"]))]}

\* saveConfig(): writeFile succeeds (ok) or fails and the error is swallowed.
\* configFile is the file as JSON.parse reads it: the keys and values that
\* JSON.stringify wrote, in objects that nothing else holds
saveConfig(cfg, ok) ==
    configFile' = IF ok THEN cfg ELSE configFile

\* a method of TemplateConfig called by the CLI, with its return value
configCall(o, arg, value) ==
    /\ cfgPc = "ready"
    /\ cfgSteps < MaxConfigOps
    /\ cfgSteps' = cfgSteps + 1
    /\ cfgOp' = o
    /\ cfgArg' = arg
    /\ cfgRet' = value
    /\ cfgPc' = "ready"
    /\ UNCHANGED cfgOthers

\* init(): loadConfig()
loadConfig(ok) ==
    /\ cfgPc = "constructed"
    /\ cfgPc' = "ready"
    /\ IF configFile = NoFile
       THEN /\ saveConfig(config, ok)
            /\ UNCHANGED <<config, shared>>
       ELSE /\ config' = mergeConfigs(defaultConfig, configFile)
            /\ shared' = sharedAfterMerge(configFile)
            /\ UNCHANGED configFile
    /\ UNCHANGED <<defaultConfig, cfgOp, cfgArg, cfgRet, cfgSteps>>
    /\ UNCHANGED cfgOthers

\* the outcome of setTemplate(templateName): whether it switched
templateEnabled(cfg, templateName) ==
    /\ templateName \in DOMAIN cfg.templates
    /\ cfg.templates[templateName].enabled

configAfterSetTemplate(cfg, templateName) ==
    IF templateEnabled(cfg, templateName)
    THEN [cfg EXCEPT !.currentTemplate = templateName]
    ELSE cfg

setTemplate(templateName, ok) ==
    /\ configCall("setTemplate", templateName, templateEnabled(config, templateName))
    /\ config' = configAfterSetTemplate(config, templateName)
    /\ IF templateEnabled(config, templateName)
       THEN saveConfig(config', ok)
       ELSE UNCHANGED configFile
    /\ UNCHANGED <<defaultConfig, shared>>

\* TemplateConfig.setTheme(themeName)
configSetTheme(themeName, ok) ==
    LET enabled == themeName \in DOMAIN config.themes /\ config.themes[themeName].enabled
    IN  /\ configCall("setTheme", themeName, enabled)
        /\ config' = IF enabled THEN [config EXCEPT !.currentTheme = themeName] ELSE config
        /\ IF enabled THEN saveConfig(config', ok) ELSE UNCHANGED configFile
        /\ UNCHANGED <<defaultConfig, shared>>

\* the templates object after templates[templateName].customizations = {...}
withCustomizations(templates, templateName, customizations) ==
    [templates EXCEPT ![templateName].customizations = Spread(@, customizations)]

setTemplateCustomizations(templateName, customizations, ok) ==
    LET exists == templateName \in DOMAIN config.templates
    IN  /\ configCall("setTemplateCustomizations", templateName, exists)
        /\ IF exists
           THEN /\ config' = [config EXCEPT !.templates =
                                 withCustomizations(@, templateName, customizations)]
                /\ defaultConfig' =
                     IF templateName \in shared.templates
                     THEN [defaultConfig EXCEPT !.templates =
                              withCustomizations(@, templateName, customizations)]
                     ELSE defaultConfig
                /\ saveConfig(config', ok)
           ELSE UNCHANGED <<config, defaultConfig, configFile>>
        /\ UNCHANGED shared

\* this.config.customSettings = {...}: an object of its own
withSettings(cfg, settings) ==
    [cfg EXCEPT !.customSettings = Spread(@, settings)]

ownSettings(sh) == [sh EXCEPT !.customSettings = FALSE]

updateSettings(settings, ok) ==
    /\ configCall("updateSettings", "", Spread(config.customSettings, settings))
    /\ config' = withSettings(config, settings)
    /\ shared' = ownSettings(shared)
    /\ saveConfig(config', ok)
    /\ UNCHANGED defaultConfig

applyPreset(presetName, ok) ==
    LET exists == presetName \in DOMAIN config.presets
        preset == config.presets[presetName]
    IN  /\ configCall("applyPreset", presetName, exists)
        /\ IF exists
           THEN /\ config' = [withSettings(config, preset.settings) EXCEPT
                                 !.currentTemplate = preset.template,
                                 !.currentTheme = preset.theme]
                /\ shared' = ownSettings(shared)
                /\ saveConfig(config', ok)
           ELSE UNCHANGED <<config, shared, configFile>>
        /\ UNCHANGED defaultConfig

\* the presets object after presets[name] = {template, theme, settings}
withPreset(presets, name, template, theme, settings) ==
    Spread(presets, name :> Preset(template, theme, settings))

\* the presets of this.defaultConfig after this.config.presets[name] = ...
defaultPresetsAfter(sh, presets, name, template, theme, settings) ==
    IF sh.presets THEN withPreset(presets, name, template, theme, settings) ELSE presets

createCustomPreset(name, template, theme, settings, ok) ==
    /\ configCall("createCustomPreset", name, TRUE)
    /\ config' = [config EXCEPT !.presets = withPreset(@, name, template, theme, settings)]
    /\ defaultConfig' =
         [defaultConfig EXCEPT !.presets =
             defaultPresetsAfter(shared, @, name, template, theme, settings)]
    /\ saveConfig(config', ok)
    /\ UNCHANGED shared

\* this.config.customSettings after the assignments of interactiveSetup
withAnswers(customSettings, answers) ==
    [customSettings EXCEPT !.showTimestamp = answers.showTimestamp,
                           !.animationsEnabled = answers.animationsEnabled,
                           !.compactMode = answers.compactMode,
                           !.language = answers.language,
                           !.updateInterval = answers.updateInterval]

interactiveSetup(answers, ok) ==
    /\ configCall("interactiveSetup", answers.template, TRUE)
    /\ config' = [config EXCEPT !.currentTemplate = answers.template,
                                !.currentTheme = answers.theme,
                                !.customSettings = withAnswers(@, answers)]
    /\ defaultConfig' =
         IF shared.customSettings
         THEN [defaultConfig EXCEPT !.customSettings = withAnswers(@, answers)]
         ELSE defaultConfig
    /\ saveConfig(config', ok)
    /\ UNCHANGED shared

\* resetToDefaults(): the answer of the confirm prompt is reset
resetToDefaults(reset, ok) ==
    /\ configCall("resetToDefaults", "", reset)
    /\ IF reset
       THEN /\ config' = defaultConfig
            /\ shared' = AllShared
            /\ saveConfig(config', ok)
       ELSE UNCHANGED <<config, shared, configFile>>
    /\ UNCHANGED defaultConfig

\* the templates of the list of quickSwitch
QuickSwitchTemplates ==
    {"classic", "modern", "dashboard", "minimal", "ascii", "retro", "map", "mobile",
     "matrix", "gauge"}

\* quickSwitch(): template is the choice made at the prompt
quickSwitch(template, ok) ==
    /\ configCall("quickSwitch", template, template)
    /\ config' = configAfterSetTemplate(config, template)
    /\ IF templateEnabled(config, template)
       THEN saveConfig(config', ok)
       ELSE UNCHANGED configFile
    /\ UNCHANGED <<defaultConfig, shared>>

\* new TemplateConfig() in a home directory with or without a saved file
InitConf ==
    /\ prog = "config"
    /\ retryAttempts = DefaultRetryAttempts
    /\ InitCall
    /\ AiIdle
    /\ AppIdle
    /\ TplIdle
    /\ PureIdle
    /\ CcIdle
    /\ NtIdle
    /\ cfgPc = "constructed"
    /\ defaultConfig = FactoryConfig
    /\ config = FactoryConfig
    /\ shared = AllShared
    /\ configFile \in {NoFile} \cup SavedFiles
    /\ cfgOp = NoOp
    /\ cfgArg = ""
    /\ cfgRet = Null
    /\ cfgSteps = 0

NextConf ==
    \/ \E ok \in BOOLEAN : loadConfig(ok)
    \/ \E t \in ConfigTemplateArgs, ok \in BOOLEAN : setTemplate(t, ok)
    \/ \E t \in ConfigThemeArgs, ok \in BOOLEAN : configSetTheme(t, ok)
    \/ \E t \in {"classic", "modern", "ascii"}, c \in CustomizationArgs, ok \in BOOLEAN :
          setTemplateCustomizations(t, c, ok)
    \/ \E s \in SettingsArgs, ok \in BOOLEAN : updateSettings(s, ok)
    \/ \E p \in PresetArgs, ok \in BOOLEAN : applyPreset(p, ok)
    \/ \E n \in CustomPresetNames, ok \in BOOLEAN :
          createCustomPreset(n, "retro", "sunset", [language |-> "en"], ok)
    \/ \E a \in Answers, ok \in BOOLEAN : interactiveSetup(a, ok)
    \/ \E r \in BOOLEAN, ok \in BOOLEAN : resetToDefaults(r, ok)
    \/ \E t \in QuickSwitchTemplates, ok \in BOOLEAN : quickSwitch(t, ok)

SpecConf == InitConf /\ [][NextConf]_vars

-----------------------------------------------------------------------------
(* bin/bwc.js: several invocations of the CLI on one cache key

   Each invocation is a process of its own: readCache, and on a miss the
   fetch and writeCache. Nothing locks the file. statSync and readFileSync
   are two system calls; writeFileSync opens the file with the flag 'w',
   which truncates it, and then writes the text at offset 0 of its own
   descriptor. Text is kept character by character so that a truncated or
   overwritten file is what JSON.parse gets to see. *)

Invocations == 1..3

\* the characters between the braces of the JSON text of a payload
LongPayload == <<"a", "a", "a">>
ShortPayload == <<"b">>
EarlierPayload == <<"c", "c">>
Payloads == {LongPayload, ShortPayload}

\* JSON.stringify(data) of an object
JSONtext(data) == <<"{">> \o data \o <<"}">>

\* JSON.parse(text) succeeds: the text is one object and nothing else
IsJSONtext(text) ==
    /\ Len(text) >= 2
    /\ text[1] = "{"
    /\ text[Len(text)] = "}"
    /\ \A i \in 2..(Len(text) - 1) : text[i] \notin {"{", "}"}

ParsedObject(data) == [type |-> "object", chars |-> data]

\* JSON.parse(text), Thrown for a SyntaxError
JSONparseText(text) ==
    IF IsJSONtext(text) THEN ParsedObject(SubSeq(text, 2, Len(text) - 1)) ELSE Thrown

CacheFile(text, fresh) == [type |-> "file", text |-> text, fresh |-> fresh]

\* the text of a file after a write of text at offset 0 that does not truncate
Overwrite(old, text) ==
    text \o SubSeq(old, Len(text) + 1, Len(old))

ccStep(p, from, to) ==
    /\ ccPc[p] = from
    /\ ccPc' = [ccPc EXCEPT ![p] = to]
    /\ UNCHANGED ccOthers

\* readCache: statSync and the comparison of the age with CACHE_TTL_MS
ccStat(p) ==
    /\ ccPc[p] = "start"
    /\ IF ccFile.type = "nofile" \/ ~ccFile.fresh
       THEN /\ ccStep(p, "start", "miss")
            /\ ccRead' = [ccRead EXCEPT ![p] = Null]
       ELSE /\ ccStep(p, "start", "statted")
            /\ UNCHANGED ccRead
    /\ UNCHANGED <<ccFile, ccData, ccWriters>>

\* readCache: JSON.parse(readFileSync(f)), null from the catch block
ccReadFile(p) ==
    LET parsed == JSONparseText(ccFile.text)
    IN  /\ ccPc[p] = "statted"
        /\ IF parsed.type = "throw"
           THEN /\ ccStep(p, "statted", "miss")
                /\ ccRead' = [ccRead EXCEPT ![p] = Null]
           ELSE /\ ccStep(p, "statted", "done")
                /\ ccRead' = [ccRead EXCEPT ![p] = parsed]
        /\ UNCHANGED <<ccFile, ccData, ccWriters>>

\* after the fetch, writeCache: writeFileSync opens the file and truncates it
ccOpen(p) ==
    /\ ccStep(p, "miss", "opened")
    /\ ccFile' = CacheFile(<<>>, TRUE)
    /\ UNCHANGED <<ccData, ccRead, ccWriters>>

\* writeCache: writeFileSync writes the text and closes the file
ccWrite(p) ==
    /\ ccStep(p, "opened", "done")
    /\ ccFile' = CacheFile(Overwrite(ccFile.text, JSONtext(ccData[p])), TRUE)
    /\ ccWriters' = Append(ccWriters, p)
    /\ UNCHANGED <<ccData, ccRead>>

\* the invocations start together; the cache file is absent, stale or fresh
InitRace ==
    /\ prog = "race"
    /\ retryAttempts = DefaultRetryAttempts
    /\ InitCall
    /\ AiIdle
    /\ AppIdle
    /\ TplIdle
    /\ PureIdle
    /\ CfgIdle
    /\ NtIdle
    /\ ccPc = [p \in Invocations |-> "start"]
    /\ ccFile \in {NoFile} \cup {CacheFile(JSONtext(EarlierPayload), f) : f \in BOOLEAN}
    /\ ccData \in [Invocations -> Payloads]
    /\ ccRead = [p \in Invocations |-> Undefined]
    /\ ccWriters = <<>>

NextRace ==
    \E p \in Invocations :
        \/ ccStat(p)
        \/ ccReadFile(p)
        \/ ccOpen(p)
        \/ ccWrite(p)

SpecRace == InitRace /\ [][NextRace]_vars

-----------------------------------------------------------------------------
(* WeatherNotificationManager (src/notification-manager.js)

   The constructor calls loadConfiguration() without awaiting it, so the code
   that constructed the manager runs on while readFile is pending. Every
   method runs without interruption up to its first await; saveConfiguration
   builds the object it will write before its first await and writes it
   later. A cron task is running from task.start() (or from a schedule with
   scheduled: true) until task.stop() or task.destroy(). *)

MaxTasks == 4
MaxNotifOps == 3

DailyJobId == "daily-morning-report"
MonitoringJobId == "severe-weather-monitor"
JobIds == {DailyJobId, MonitoringJobId}
\* Object.entries(config.scheduledJobs) lists the jobs in this order
JobOrder == <<DailyJobId, MonitoringJobId>>

NewUsers == {"ana"}
SavedUsers == {"bob"}

Job(task, isActive) == [task |-> task, isActive |-> isActive]
Task(job, state) == [job |-> job, state |-> state]
NotifFile(subs, jobs) == [subscribers |-> subs, type |-> "file", jobs |-> jobs]

\* the object saveConfiguration builds: the keys of subscribers and, for each
\* job, its configuration with the isActive of the job
SavedConfig(subs, jobs) == NotifFile(subs, [j \in DOMAIN jobs |-> jobs[j].isActive])

\* notifications.json as an earlier session left it
SavedNotifFiles ==
    {NotifFile(SavedUsers, <<>>),
     NotifFile(SavedUsers, DailyJobId :> TRUE),
     NotifFile({}, (DailyJobId :> FALSE) @@ (MonitoringJobId :> TRUE))}

\* scheduleNotification: if (scheduledJobs.has(jobId)) ...task.destroy()
destroyExisting(jobs, ts, jobId) ==
    IF jobId \in DOMAIN jobs
    THEN [ts EXCEPT ![jobs[jobId].task].state = "destroyed"]
    ELSE ts

\* cron.schedule(..., {scheduled: false}) and task.start() if isActive
tasksAfterSchedule(jobs, ts, jobId, isActive) ==
    Append(destroyExisting(jobs, ts, jobId),
           Task(jobId, IF isActive THEN "running" ELSE "created"))

\* scheduledJobs.set(jobId, {task, config, isActive, createdAt})
jobsAfterSet(jobs, ts, jobId, isActive) ==
    (jobId :> Job(Len(ts) + 1, isActive)) @@ jobs

\* startSevereWeatherMonitoring: cron.schedule(..., {scheduled: true})
tasksAfterStart(jobs, ts) == Append(ts, Task(MonitoringJobId, "running"))

\* task.stop()
stopped(state) == IF state = "running" THEN "stopped" ELSE state

\* cleanup: job.task.destroy() for every job of scheduledJobs
tasksAfterCleanup(jobs, ts) ==
    [t \in DOMAIN ts |->
        IF \E j \in DOMAIN jobs : jobs[j].task = t
        THEN [ts[t] EXCEPT !.state = "destroyed"]
        ELSE ts[t]]

\* saveConfiguration() called by `who`: the object is built now, written later
saveConfiguration(who, subs, jobs) ==
    ntSaves' = (who :> SavedConfig(subs, jobs)) @@ ntSaves

ntStep(name) ==
    /\ ntLast' = name
    /\ UNCHANGED ntOthers

\* the code that constructed the manager calls a method
callerCall(name) ==
    /\ ntCaller = "ready"
    /\ ntOps < MaxNotifOps
    /\ ntOps' = ntOps + 1
    /\ ntStep(name)

addSubscriber(userId) ==
    /\ callerCall("addSubscriber")
    /\ subscribers' = subscribers \cup {userId}
    /\ ntAdded' = ntAdded \cup {userId}
    /\ saveConfiguration("caller", subscribers \cup {userId}, scheduledJobs)
    /\ ntCaller' = "awaiting"
    /\ UNCHANGED <<scheduledJobs, tasks, notifFile, ntLoad>>

\* scheduleNotification(jobId, jobConfig) called under the name `name`
scheduleCall(name, jobId, isActive) ==
    /\ callerCall(name)
    /\ Len(tasks) < MaxTasks
    /\ tasks' = tasksAfterSchedule(scheduledJobs, tasks, jobId, isActive)
    /\ scheduledJobs' = jobsAfterSet(scheduledJobs, tasks, jobId, isActive)
    /\ saveConfiguration("caller", subscribers,
                         jobsAfterSet(scheduledJobs, tasks, jobId, isActive))
    /\ ntCaller' = "awaiting"
    /\ UNCHANGED <<subscribers, notifFile, ntLoad, ntAdded>>

scheduleNotification(jobId, isActive) ==
    scheduleCall("scheduleNotification", jobId, isActive)

setupDailyWeatherNotification ==
    scheduleCall("setupDailyWeatherNotification", DailyJobId, TRUE)

startSevereWeatherMonitoring ==
    /\ callerCall("startSevereWeatherMonitoring")
    /\ Len(tasks) < MaxTasks
    /\ tasks' = tasksAfterStart(scheduledJobs, tasks)
    /\ scheduledJobs' = jobsAfterSet(scheduledJobs, tasks, MonitoringJobId, TRUE)
    /\ UNCHANGED <<subscribers, notifFile, ntLoad, ntSaves, ntCaller, ntAdded>>

stopScheduledJob(jobId) ==
    /\ callerCall("stopScheduledJob")
    /\ IF jobId \in DOMAIN scheduledJobs
       THEN /\ tasks' = [tasks EXCEPT ![scheduledJobs[jobId].task].state = stopped(@)]
            /\ scheduledJobs' = [scheduledJobs EXCEPT ![jobId].isActive = FALSE]
            /\ saveConfiguration("caller", subscribers,
                                 [scheduledJobs EXCEPT ![jobId].isActive = FALSE])
            /\ ntCaller' = "awaiting"
       ELSE UNCHANGED <<tasks, scheduledJobs, ntSaves, ntCaller>>
    /\ UNCHANGED <<subscribers, notifFile, ntLoad, ntAdded>>

cleanup ==
    /\ callerCall("cleanup")
    /\ tasks' = tasksAfterCleanup(scheduledJobs, tasks)
    /\ scheduledJobs' = <<>>
    /\ saveConfiguration("caller", subscribers, <<>>)
    /\ ntCaller' = "awaiting"
    /\ UNCHANGED <<subscribers, notifFile, ntLoad, ntAdded>>

\* the writeFile of a pending saveConfiguration completes and its caller
\* resumes
writeFileDone(who) ==
    /\ who \in DOMAIN ntSaves
    /\ notifFile' = ntSaves[who]
    /\ ntSaves' = [w \in (DOMAIN ntSaves) \ {who} |-> ntSaves[w]]
    /\ ntCaller' = IF who = "caller" THEN "ready" ELSE ntCaller
    /\ ntStep("writeFile")
    /\ UNCHANGED <<subscribers, scheduledJobs, tasks, ntLoad, ntAdded, ntOps>>

Loading(at, content, rest) == [at |-> at, content |-> content, rest |-> rest]

\* the job ids of a saved configuration, in order
SavedJobs(content) == SelectSeq(JobOrder, LAMBDA j : j \in DOMAIN content.jobs)

\* loadConfiguration: readFile completes, with ENOENT when there is no file
loadRead ==
    /\ ntLoad.at = "reading"
    /\ ntLoad' = IF notifFile.type = "nofile"
                 THEN Loading("done", NoFile, <<>>)
                 ELSE Loading("parsed", notifFile, <<>>)
    /\ ntStep("readFile")
    /\ UNCHANGED <<subscribers, scheduledJobs, tasks, notifFile, ntSaves, ntCaller,
                   ntAdded, ntOps>>

\* loadConfiguration: the scheduleNotification of the next saved job, subs
\* being this.subscribers at that moment
loadSchedule(content, rest, subs) ==
    IF rest = <<>>
    THEN /\ ntLoad' = Loading("done", content, <<>>)
         /\ UNCHANGED <<scheduledJobs, tasks, ntSaves>>
    ELSE /\ Len(tasks) < MaxTasks
         /\ tasks' = tasksAfterSchedule(scheduledJobs, tasks, Head(rest),
                                        content.jobs[Head(rest)])
         /\ scheduledJobs' = jobsAfterSet(scheduledJobs, tasks, Head(rest),
                                          content.jobs[Head(rest)])
         /\ saveConfiguration("load", subs,
                              jobsAfterSet(scheduledJobs, tasks, Head(rest),
                                           content.jobs[Head(rest)]))
         /\ ntLoad' = Loading("restoring", content, Tail(rest))

\* this.subscribers after `this.subscribers = new Map(Object.entries(...))`
subscribersAfterLoad(current, content) == content.subscribers

\* loadConfiguration after JSON.parse: the subscribers are replaced and the
\* first saved job is scheduled
loadRestore ==
    /\ ntLoad.at = "parsed"
    /\ subscribers' = subscribersAfterLoad(subscribers, ntLoad.content)
    /\ loadSchedule(ntLoad.content, SavedJobs(ntLoad.content),
                    subscribersAfterLoad(subscribers, ntLoad.content))
    /\ ntStep("restore")
    /\ UNCHANGED <<notifFile, ntCaller, ntAdded, ntOps>>

\* loadConfiguration resumes after the save of scheduleNotification
loadNext ==
    /\ ntLoad.at = "restoring"
    /\ "load" \notin DOMAIN ntSaves
    /\ loadSchedule(ntLoad.content, ntLoad.rest, subscribers)
    /\ ntStep("restore")
    /\ UNCHANGED <<subscribers, notifFile, ntCaller, ntAdded, ntOps>>

\* new WeatherNotificationManager(...) has returned: readFile is pending
InitNotif ==
    /\ prog = "notifications"
    /\ retryAttempts = DefaultRetryAttempts
    /\ InitCall
    /\ AiIdle
    /\ AppIdle
    /\ TplIdle
    /\ PureIdle
    /\ CfgIdle
    /\ CcIdle
    /\ subscribers = {}
    /\ scheduledJobs = <<>>
    /\ tasks = <<>>
    /\ notifFile \in {NoFile} \cup SavedNotifFiles
    /\ ntLoad = Loading("reading", NoFile, <<>>)
    /\ ntSaves = <<>>
    /\ ntCaller = "ready"
    /\ ntAdded = {}
    /\ ntLast = NoOp
    /\ ntOps = 0

NextNotif ==
    \/ \E u \in NewUsers : addSubscriber(u)
    \/ \E j \in JobIds, a \in BOOLEAN : scheduleNotification(j, a)
    \/ setupDailyWeatherNotification
    \/ startSevereWeatherMonitoring
    \/ \E j \in JobIds : stopScheduledJob(j)
    \/ cleanup
    \/ \E w \in {"caller", "load"} : writeFileDone(w)
    \/ loadRead
    \/ loadRestore
    \/ loadNext

SpecNotif == InitNotif /\ [][NextNotif]_vars

-----------------------------------------------------------------------------
(* Properties *)

\* the time to live of the cache of the running program
Ttl == IF prog = "bwc" THEN CACHE_TTL_MS ELSE cacheDuration * 1000

\* the call in progress returned a payload from the cache
ServedFromCache == pc = "done" /\ reqs = 0 /\ result.type = "object"

\* the call in progress fetched a payload and stored it
Stored ==
    /\ pc = "done"
    /\ reqs >= 1
    /\ result.type = "object"
    /\ "write" \notin faults

\* C1 as stated: a payload is served from the cache only when the entry's age
\* is strictly less than the time to live, and an entry whose age is equal to
\* or greater than the time to live is reported absent.
C1_ServedOnlyBelowTtl ==
    /\ ServedFromCache => before.age < Ttl
    /\ prog = "bwc" =>
         \A k \in BwcKeys :
            (files[k] # NoFile /\ files[k].age >= Ttl) => readCache(k) = Null
    /\ prog = "api" =>
         \A k \in ApiKeys :
            (cache[k] # NoEntry /\ cache[k].age >= Ttl) => cacheGet(k) = Undefined

\* C1 amended: a payload is served from the cache only when an entry for the
\* key exists whose age is at most the time to live, and an entry whose age
\* is greater than the time to live is reported absent.
C1_ServedOnlyWithinTtl ==
    /\ ServedFromCache => (before.type \in {"file", "entry"} /\ before.age <= Ttl)
    /\ prog = "bwc" =>
         \A k \in BwcKeys :
            (files[k] # NoFile /\ files[k].age > Ttl) => readCache(k) = Null
    /\ prog = "api" =>
         \A k \in ApiKeys :
            (cache[k] # NoEntry /\ cache[k].age > Ttl) => cacheGet(k) = Undefined

\* readCache has served an entry whose age is exactly the time to live
C1_ServedAtTtl == prog = "bwc" /\ ServedFromCache /\ before.age = CACHE_TTL_MS

\* the payload of a file, whatever its age
Payload(f) == IF f = NoFile THEN NoFile ELSE f.text

\* the value of a NodeCache entry, whatever its age
Value(e) == IF e = NoEntry THEN NoEntry ELSE e.v

\* a get that immediately follows the set of the call in progress returns
\* the payload that was set
C2_RoundTrip ==
    /\ (prog = "bwc" /\ Stored) => readCache(key) = result
    /\ (prog = "api" /\ Stored) => cacheGet(key) = result

\* the step that sets the entry of the key leaves every other key's entry
C2_FrameStep ==
    /\ (pc = "body" /\ pc' = "done") =>
         \A k \in BwcKeys \ {key} : Payload(files'[k]) = Payload(files[k])
    /\ (pc = "inflight" /\ pc' = "done") =>
         \A k \in ApiKeys \ {key} : Value(cache'[k]) = Value(cache[k])

\* C2: set(k, p) immediately followed by get(k) returns p, also when the set
\* overwrites an earlier entry of k, and the entries stored under every other
\* key are unchanged by the set (a set whose storage write fails is the case
\* of C3).
C2_SetThenGet == []C2_RoundTrip /\ [][C2_FrameStep]_vars

\* a set has overwritten an entry that held another payload, while another
\* key holds an entry, and get returns the new payload
C2_Overwritten ==
    /\ prog = "bwc"
    /\ Stored
    /\ before # NoFile
    /\ ParseOk(before.text)
    /\ JSONparse(before.text) # result
    /\ readCache(key) = result

\* C3: a cache read or write that fails (missing, unreadable or unparsable
\* file, directory not writable) never raises to the caller: after a failed
\* read the call issues the upstream request as on a miss, and after a failed
\* write it returns the fetched data.
C3_CacheFaultsSwallowed ==
    /\ result # Err("CacheIOError", 0)
    /\ ("read" \in faults) => (pc \in {"fetch", "body", "done"} /\ reqs = 1)
    /\ ("write" \in faults) => (pc = "done" /\ result.type = "object")

\* a call whose cache read and cache write both failed has returned the
\* fetched data
C3_FaultyReadAndWrite ==
    /\ pc = "done"
    /\ faults = {"read", "write"}
    /\ result.type = "object"

\* the entry found under the key when the call started can be served
FreshBefore ==
    IF prog = "bwc"
    THEN /\ before.type = "file"
         /\ before.age <= CACHE_TTL_MS
         /\ ParseOk(before.text)
         /\ dirMode # "none"
    ELSE /\ before.type = "entry"
         /\ before.age <= cacheDuration * 1000

\* what a call served from the entry `before` returns
CachedPayload ==
    IF prog = "bwc" THEN JSONparse(before.text)
    ELSE IF op = "getCurrent" THEN [before.v EXCEPT !.fromCache = "true"]
    ELSE before.v

Succeeded ==
    /\ prog = "api"
    /\ pc = "done"
    /\ reqs >= 1
    /\ lastError = Null

\* the request of the call in progress was rejected with HTTP 500
Failed500 ==
    /\ prog = "api"
    /\ pc = "done"
    /\ lastError # Null
    /\ lastError.status = 500

\* C5 as stated: with an upstream that answers HTTP 500 exactly N times and
\* then succeeds, the request succeeds iff N < retryAttempts.
C5_SucceedsIffBelowMax ==
    /\ (Succeeded /\ only500) => retry < retryAttempts
    /\ (Failed500 /\ only500) => retry >= retryAttempts

\* C5 amended: with an upstream that answers HTTP 500 exactly N times and
\* then succeeds, the request succeeds iff N <= retryAttempts: it succeeds
\* after up to retryAttempts answers of 500, and is rejected only by the
\* answer number retryAttempts + 1.
C5_SucceedsIffAtMostMax ==
    /\ (Succeeded /\ only500) => retry <= retryAttempts
    /\ (Failed500 /\ only500) => retry = retryAttempts + 1

\* a request has succeeded after exactly retryAttempts answers of HTTP 500
C5_SucceededAtMax ==
    /\ Succeeded
    /\ only500
    /\ retryAttempts = DefaultRetryAttempts
    /\ retry = retryAttempts
    /\ reqs = retryAttempts + 1

FourXX(status) == status >= 400 /\ status < 500

\* C6: a request answered with a 4xx status is not retried: the rejection
\* carries that status, the answer was the last attempt, and the only
\* attempts and backoff delays before it are those of earlier transient
\* failures, so a 4xx on the first attempt means one attempt and no delay.
C6_ClientErrorNotRetried ==
    (prog = "api" /\ lastError # Null /\ FourXX(lastError.status)) =>
        /\ pc = "done"
        /\ reqs = transients + 1
        /\ Len(delays) = transients
        /\ retry = reqs
        /\ (op \in {"getCurrent", "getForecast"} => result.type = "error")

\* a 404 on the first attempt has been rejected after one attempt, no delay
C6_NotFoundOnce ==
    /\ prog = "api"
    /\ pc = "done"
    /\ lastError # Null
    /\ lastError.status = 404
    /\ reqs = 1
    /\ delays = <<>>

RECURSIVE SumSeq(_)
SumSeq(q) == IF q = <<>> THEN 0 ELSE Head(q) + SumSeq(Tail(q))

\* C7: the delay before the k-th retry of a request is 2^k seconds, the
\* delays strictly increase, there are at most retryAttempts of them, and a
\* success after N transient failures has waited the sum of 2^k, k = 1..N.
C7_BackoffSchedule ==
    /\ \A k \in 1..Len(delays) : delays[k] = Pow2(k) * 1000
    /\ \A k \in 1..(Len(delays) - 1) : delays[k] < delays[k + 1]
    /\ Len(delays) <= retryAttempts
    /\ Succeeded =>
          (Len(delays) = retry /\ SumSeq(delays) = (Pow2(retry + 1) - 2) * 1000)

\* a request has succeeded on its third retry, after 2 + 4 + 8 seconds
C7_ThreeDelays ==
    /\ Succeeded
    /\ retry = 3
    /\ delays = <<2000, 4000, 8000>>

\* a request is in progress
InRequest == prog = "api" /\ pc \in {"inflight", "backoff"}

\* at most retryAttempts retries, and a transient failure is surfaced only
\* once they are used up
C8_RetriesBounded ==
    prog = "api" =>
        /\ reqs <= retryAttempts + 1
        /\ (pc = "done" /\ lastError # Null /\ IsTransient(lastError)) =>
              (retry = retryAttempts + 1 /\ reqs = retryAttempts + 1
                 /\ Len(delays) = retryAttempts)

\* C8: a request whose attempts fail transiently always terminates: it makes at
\* most retryAttempts retries, and its error is surfaced only after the
\* retries are exhausted.
C8_Terminates == []C8_RetriesBounded /\ (InRequest ~> (pc = "done"))

\* a request has been rejected after retryAttempts + 1 transient failures
C8_Exhausted ==
    /\ prog = "api"
    /\ pc = "done"
    /\ lastError # Null
    /\ IsTransient(lastError)
    /\ retryAttempts = DefaultRetryAttempts
    /\ transients = retryAttempts + 1

\* C9 as stated: when the timeout elapses before the response, the request is
\* aborted and the call fails with a timeout error; a completed request has
\* no pending timer.
C9_TimeoutFailsCall ==
    /\ (pc = "done" /\ timedOut) =>
          result \in {Err("AbortError", 0), Err("timeout", 0)}
    /\ pc \in {"idle", "backoff", "done"} => ~armed

\* C9 amended: when the timeout elapses before the response the request in
\* flight is aborted. In fetchJson the call then fails with the abort error.
\* In WeatherAPI the abort is a transient failure of that attempt, retried
\* after its backoff delay: the call ends on a timeout only when the attempt
\* number retryAttempts + 1 times out, and then getCurrent and getForecast
\* fail with the timeout error while getAirQuality and getUVIndex return
\* null. A request that has completed has no pending timer, so it is never
\* aborted afterwards.
C9_TimeoutAbortsAttempt ==
    /\ (prog = "bwc" /\ pc = "done" /\ timedOut) => result = Err("AbortError", 0)
    /\ (prog = "api" /\ pc = "done" /\ lastError # Null
          /\ lastError.code = "ECONNABORTED") =>
          /\ timedOut
          /\ retry = retryAttempts + 1
          /\ result = IF op \in {"getCurrent", "getForecast"}
                      THEN Err("timeout", 0)
                      ELSE Null
    /\ (timedOut /\ pc \in {"inflight", "backoff"}) => retry <= retryAttempts
    /\ pc \in {"idle", "backoff", "done"} => ~armed
    /\ armed => remaining >= 0

\* getCurrent has failed with the timeout error after its last attempt timed out
C9_TimedOutAfterRetries ==
    /\ prog = "api"
    /\ pc = "done"
    /\ op = "getCurrent"
    /\ timedOut
    /\ retry = retryAttempts + 1
    /\ result = Err("timeout", 0)

\* C10: handleApiError maps 401, 404 and 429 to three distinct errors, each
\* distinct from the timeout, network and generic API errors, and it always
\* raises: after a failure getCurrent and getForecast end with an error,
\* never with a returned value.
C10_StatusMapping ==
    (prog = "api" /\ pc = "done" /\ op \in {"getCurrent", "getForecast"}) =>
        /\ result.type \in {"object", "error"}
        /\ lastError # Null =>
              /\ result.type = "error"
              /\ result.name \in {"credential", "notFound", "rateLimit",
                                  "timeout", "network", "api"}
              /\ result.name = "credential" <=> lastError.status = 401
              /\ result.name = "notFound" <=> lastError.status = 404
              /\ result.name = "rateLimit" <=> lastError.status = 429

\* getForecast has failed with the rate-limit error on a 429
C10_RateLimited ==
    /\ prog = "api"
    /\ pc = "done"
    /\ op = "getForecast"
    /\ lastError # Null
    /\ lastError.status = 429
    /\ result = Err("rateLimit", 0)

\* what the run of the `now` command has printed
Printed == {out[i] : i \in 1..Len(out)}

\* getCurrentWeather has returned
Returned == appPc \in {"returned", "exited"}

\* C11: whenever the current-weather fetch fails with the credential error,
\* getCurrentWeather reports the credential problem and goes on to render the
\* mock dataset.
C11_CredentialFallback ==
    (Returned /\ promises["current"].st = "rejected"
        /\ promises["current"].v.name = "credential") =>
        /\ "credential" \in Printed
        /\ "weather:mock" \in Printed

\* C12: whenever current weather succeeds, a failed air-quality or UV fetch
\* gives null for that source and the result is still rendered and returned,
\* in every order in which the three fetches complete.
C12_OptionalFetchesTolerated ==
    (Returned /\ promises["current"].st = "fulfilled") =>
        /\ ret.type = "result"
        /\ ret.current = promises["current"].v
        /\ "air" \in failed => ret.air = Null
        /\ "uv" \in failed => ret.uv = Null
        /\ "weather:live" \in Printed

\* the run printed an error and no weather, from live or mock data
Unrecovered ==
    /\ "fail" \in Printed
    /\ "weather:live" \notin Printed
    /\ "weather:mock" \notin Printed

\* C13: a run ends with exit code 0 when the command succeeds and with a
\* non-zero exit code whenever a fetch error is not recovered.
C13_ExitCode ==
    appPc = "exited" =>
        /\ "fail" \notin Printed => exitCode = 0
        /\ Unrecovered => exitCode # 0

\* the call of method o on the AIInsights instance has returned
AiDone(o) == aiPc = "done" /\ aiOp = o

\* the rule an alert message belongs to
RuleOf(message) ==
    CASE message \in {"temperaturi extreme", "canicula extrema",
                      "temperaturi sub zero", "temperaturi ridicate"} -> "temperature"
      [] message \in {"vant foarte puternic", "vant puternic"} -> "wind"
      [] message = "ploaie intensa" -> "precipitation"
      [] message = "aer foarte poluat" -> "air quality"
      [] message = "indice UV ridicat" -> "UV"
      [] OTHER -> "none"

\* no threshold of the five rules is passed by the arguments of the call
NoRuleFires ==
    /\ weather.temp >= 0 /\ weather.temp <= 30
    /\ weather.wind_speed <= 15
    /\ "rain_1h" \notin weather.has \/ weather.rain_1h <= 10
    /\ airQuality = Null \/ airQuality.aqi < 4
    /\ uvIndex = Null \/ uvIndex.uv_index <= 8

\* C14: generateSmartAlerts returns a non-empty list in which each of the five
\* rules contributes at most one alert; the list is exactly the success-level
\* 'normal conditions' entry when no rule fires, and holds no success-level
\* entry when a rule fires.
C14_AlertListShape ==
    AiDone("generateSmartAlerts") =>
        LET list == aiResult.list IN
        /\ aiResult.type = "alerts"
        /\ Len(list) >= 1
        /\ \A i, j \in 1..Len(list) :
              (i # j /\ list[i].level # "success") =>
                  RuleOf(list[i].message) # RuleOf(list[j].message)
        /\ \A i \in 1..Len(list) :
              list[i].level # "success" => RuleOf(list[i].message) # "none"
        /\ NoRuleFires => list = <<Alert("success", "conditii normale")>>
        /\ ~NoRuleFires => \A i \in 1..Len(list) : list[i].level # "success"

\* the record of the test (temp 20, humidity 60, wind_speed 5, pressure 1013)
\* has given the normal-conditions entry alone
C14_NormalConditionsOnly ==
    /\ AiDone("generateSmartAlerts")
    /\ weather = WeatherRecord(MinimalFields, 20, 5, 0, "", "")
    /\ airQuality = Null
    /\ uvIndex = Null
    /\ aiResult.list = <<Alert("success", "conditii normale")>>

\* the messages of the alerts returned by generateSmartAlerts
Messages == {aiResult.list[i].message : i \in 1..Len(aiResult.list)}

ColdMessages == {"temperaturi sub zero", "temperaturi extreme"}
HeatMessages == {"temperaturi ridicate", "canicula extrema"}

\* C15 as stated: for every record with temperature below 0 the alerts include
\* a sub-zero alert, and for every record with temperature of 30 or more they
\* include a heat alert.
C15_AlertsFromThirty ==
    AiDone("generateSmartAlerts") =>
        /\ weather.temp < 0 => Messages \cap ColdMessages # {}
        /\ weather.temp >= 30 => Messages \cap HeatMessages # {}

\* C15 amended: below 0 the alerts of generateSmartAlerts include a cold alert
\* (the sub-zero warning from -5 up to 0, the extreme-temperature danger alert
\* below -5); strictly above 30 they include a heat alert (the high-temperature
\* warning up to 35, the extreme-heat danger alert above 35); from 0 to 30, both
\* included, there is no temperature alert.
C15_AlertsAboveThirty ==
    AiDone("generateSmartAlerts") =>
        /\ weather.temp < -5 => "temperaturi extreme" \in Messages
        /\ (weather.temp >= -5 /\ weather.temp < 0) => "temperaturi sub zero" \in Messages
        /\ (weather.temp > 30 /\ weather.temp <= 35) => "temperaturi ridicate" \in Messages
        /\ weather.temp > 35 => "canicula extrema" \in Messages
        /\ (weather.temp >= 0 /\ weather.temp <= 30) =>
              Messages \cap (ColdMessages \cup HeatMessages) = {}

\* the record of the test with temp -5 has given the sub-zero warning
C15_SubZeroAtMinusFive ==
    /\ AiDone("generateSmartAlerts")
    /\ weather = WeatherRecord(MinimalFields, -5, 5, 0, "", "")
    /\ Alert("warning", "temperaturi sub zero") \in
          {aiResult.list[i] : i \in 1..Len(aiResult.list)}

\* C16: applied to a record that carries only temp, humidity, wind_speed and
\* pressure, with air quality and UV absent, generateInsights completes
\* without raising and returns clothing advice, an activity and alerts.
C16_TotalOnMinimalRecord ==
    (AiDone("generateInsights") /\ weather.has = MinimalFields
        /\ airQuality = Null /\ uvIndex = Null) =>
        /\ aiResult.type = "insights"
        /\ aiResult.clothing.type = "advice"
        /\ aiResult.activities.type = "activity"
        /\ aiResult.alerts.type = "alerts"

\* C17: the base clothing advice is that of the band [min, max) of the table
\* that contains the temperature; no two bands contain the same temperature;
\* below -20 the advice is that of the freezing band and from 50 on that of
\* the extreme band; 30 gives light clothing and -5 winter clothing.
C17_ClothingBands ==
    AiDone("getEnhancedClothingAdvice") =>
        /\ aiResult.type = "advice"
        /\ \A i \in 1..Len(clothingMatrix) :
              (weather.temp >= clothingMatrix[i].min
                 /\ weather.temp < clothingMatrix[i].max) =>
                  aiResult.base = clothingMatrix[i].base
        /\ \A i, j \in 1..Len(clothingMatrix) :
              i < j => clothingMatrix[i].max <= clothingMatrix[j].min
        /\ weather.temp < -20 => aiResult.base = "echipament de iarna complet"
        /\ weather.temp >= 50 => aiResult.base = "minim de imbracaminte"
        /\ weather.temp = 30 => aiResult.base = "imbracaminte usoara, tricou"
        /\ weather.temp = -5 => aiResult.base = "echipament de iarna complet"

\* a temperature below every band has given the advice of the freezing band
C17_BelowAllBands ==
    /\ AiDone("getEnhancedClothingAdvice")
    /\ weather.temp = -25
    /\ aiResult.base = "echipament de iarna complet"

\* the elements of a list
Elements(list) == {list[i] : i \in 1..Len(list)}

\* the six fixed lists of this.activities
ActivityLists ==
    {RainyActivities}
    \cup {ByCategory("sunny")[c] : c \in DOMAIN ByCategory("sunny")}
    \cup {ByCategory("cloudy")[c] : c \in DOMAIN ByCategory("cloudy")}

TplDone == tplPc = "done"

\* C19: renderTemplate called with a template id outside the ten enumerated
\* ids gives what the classic template gives for the same weather record,
\* forecast, theme and insights: the same text, or the same error when the
\* classic template itself raises; the unknown id adds no error of its own.
C19_UnknownTemplateFallback ==
    (TplDone /\ tplName \notin TemplateIds) =>
        /\ tplOut = render("classic", tplWeather, tplForecast, tplInsights, currentTheme)
        /\ tplOut # Undefined
        /\ (IsWeather(tplWeather) /\ tplInsights # Null
              /\ currentTheme \notin {"sunset", "rainbow"}) =>
              /\ tplOut.type = "text"
              /\ tplOut.layout = "classic"

\* an unknown id has given the text of the classic template under a theme
\* other than the default
C19_FellBackToClassic ==
    /\ TplDone
    /\ tplName = "neon"
    /\ currentTheme = "ocean"
    /\ tplOut # TypeError
    /\ tplOut.type = "text"
    /\ tplOut.layout = "classic"

\* C20: for every one of the ten template ids and every one of the eight theme
\* ids, after setTheme(theme), renderTemplate on a well-formed weather record
\* with its insights returns a text and does not throw.
C20_RenderTotality ==
    (TplDone /\ tplName \in TemplateIds /\ currentTheme \in ThemeIds
        /\ "description" \in tplWeather.has /\ tplInsights # Null) =>
        /\ tplOut # TypeError
        /\ tplOut.type = "text"

\* the call of helper o has returned or thrown
PureDone(o) == puPc = "done" /\ puOp = o

\* C21: each gauge fills between 0 and 20 of its 20 cells and the filled and
\* empty cells add up to 20, for every value, inside or outside the range of
\* the gauge.
C21_GaugeClamped ==
    \A o \in {"createTempGauge", "createWindGauge", "createHumidityGauge"} :
        PureDone(o) =>
            /\ puRes.type = "gauge"
            /\ puRes.filled \in 0..20
            /\ puRes.empty \in 0..20
            /\ puRes.filled + puRes.empty = 20

\* the last index at which x occurs in arr (0 when it does not occur)
LastIndexOf(arr, x) ==
    IF \E i \in 1..Len(arr) : arr[i] = x
    THEN CHOOSE i \in 1..Len(arr) : arr[i] = x /\ \A j \in (i + 1)..Len(arr) : arr[j] # x
    ELSE 0

\* the forecast days getForecast has returned
ForecastDays == {puRes[i] : i \in 1..Len(puRes)}

\* the samples of the response that fall on one date
SamplesOn(date) == {i \in 1..Len(puArg.list) : puArg.list[i].date = date}

\* C22 as stated: every returned day is built from a non-empty group of samples
\* of one date, its temp_min and temp_max are the rounded minimum and maximum
\* and its temp_avg the rounded mean of the group, with
\* temp_min <= temp_avg <= temp_max, and each sample of the response
\* contributes to exactly one returned day.
C22_EverySampleInOneDay ==
    PureDone("getForecast") =>
        /\ \A day \in ForecastDays :
              /\ SamplesOn(day.date) # {}
              /\ Len(day.hourly) = Cardinality(SamplesOn(day.date))
              /\ day.temp_min <= day.temp_avg /\ day.temp_avg <= day.temp_max
        /\ \A i \in 1..Len(puArg.list) :
              Cardinality({j \in 1..Len(puRes) : puRes[j].date = puArg.list[i].date}) = 1

\* C22 amended: every returned day is built from the non-empty group of all
\* samples of one date, with the rounded minimum, maximum and mean of the
\* group and temp_min <= temp_avg <= temp_max; the returned days are those of
\* the first `days` dates of the response, so each sample contributes to at
\* most one returned day: to exactly one when its date is among the first
\* `days` dates, to none when it is not.
C22_ForecastAggregation ==
    PureDone("getForecast") =>
        LET list == puArg.list
            dates == {list[i].date : i \in 1..Len(list)}
            firstDates == {d \in dates : Cardinality({e \in dates : e < d}) < puArg.days}
        IN  /\ \A day \in ForecastDays :
                  LET group == SamplesOn(day.date)
                      temps == {list[i].temp : i \in group}
                      total == Sum([i \in 1..Len(list) |->
                                       IF i \in group THEN list[i].temp ELSE 0])
                      n == Cardinality(group)
                  IN  /\ group # {}
                      /\ Len(day.hourly) = n
                      /\ \E t \in temps : /\ \A u \in temps : t <= u
                                          /\ day.temp_min = MathRound(t)
                      /\ \E t \in temps : /\ \A u \in temps : t >= u
                                          /\ day.temp_max = MathRound(t)
                      \* the nearest integer to total / (10 n), halves up
                      /\ 20 * n * day.temp_avg <= 2 * total + 10 * n
                      /\ 2 * total + 10 * n < 20 * n * (day.temp_avg + 1)
                      /\ day.temp_min <= day.temp_avg
                      /\ day.temp_avg <= day.temp_max
            /\ \A i \in 1..Len(list) :
                  Cardinality({j \in 1..Len(puRes) : puRes[j].date = list[i].date})
                      = IF list[i].date \in firstDates THEN 1 ELSE 0
            /\ Len(puRes) = Cardinality(firstDates)

\* the samples 18, 22 and 25 degrees of one day have given min 18, max 25 and
\* average 22
C22_ThreeSamples ==
    /\ PureDone("getForecast")
    /\ [i \in 1..Len(puArg.list) |-> puArg.list[i].temp] = <<180, 220, 250>>
    /\ Len(puRes) = 1
    /\ puRes[1].temp_min = 18
    /\ puRes[1].temp_max = 25
    /\ puRes[1].temp_avg = 22

\* C26: for a non-empty list getMostFrequent returns a description whose
\* number of occurrences is maximal, and among those tied for the maximum the
\* one whose last occurrence is latest.
C26_MostFrequent ==
    (PureDone("getMostFrequent") /\ puArg # <<>>) =>
        /\ \E i \in 1..Len(puArg) : puArg[i] = puRes
        /\ \A i \in 1..Len(puArg) : Count(puArg, puArg[i]) <= Count(puArg, puRes)
        /\ \A i \in 1..Len(puArg) :
              Count(puArg, puArg[i]) = Count(puArg, puRes) =>
                  LastIndexOf(puArg, puArg[i]) <= LastIndexOf(puArg, puRes)

\* of two descriptions that both occur twice, the one occurring last was returned
C26_TieGoesToLast ==
    /\ PureDone("getMostFrequent")
    /\ puArg = <<"ploaie usoara", "cer senin", "ploaie usoara", "cer senin">>
    /\ puRes = "cer senin"

\* a call whose upstream request failed has returned
FailedCall == pc = "done" /\ reqs >= 1 /\ result.type = "error"

\* C27: when the upstream request of a call fails (a 4xx, a transient failure
\* after the retries, a timeout, a body that cannot be used), the cache entry of
\* the key is the one from before the call, only older, or none: the call has
\* created or replaced nothing, and no entry ever holds an error.
C27_NoCacheWriteOnFailure ==
    /\ FailedCall =>
          IF prog = "bwc"
          THEN IF before = NoFile THEN files[key] = NoFile
               ELSE /\ files[key] # NoFile
                    /\ files[key].text = before.text
                    /\ files[key].age >= before.age
          ELSE IF before = NoEntry THEN cache[key] = NoEntry
               ELSE \/ cache[key] = NoEntry /\ before.age > cacheDuration * 1000
                    \/ /\ cache[key] # NoEntry
                       /\ cache[key].v = before.v
                       /\ cache[key].age >= before.age
    /\ \A k \in ApiKeys : cache[k] # NoEntry => cache[k].v.type # "error"

\* a call of bwc found a file it could not use, failed upstream, and the file
\* is still there with its old content
C27_StaleFileKept ==
    /\ prog = "bwc"
    /\ FailedCall
    /\ before # NoFile
    /\ files[key] # NoFile
    /\ files[key].text = before.text

\* C23: after a confirmed resetToDefaults the configuration is the factory
\* configuration (template classic, theme default, the built-in settings and
\* exactly the four built-in presets), whatever was called before it in the
\* session
C23_ResetRestoresFactory ==
    (cfgOp = "resetToDefaults" /\ cfgRet = TRUE) => config = FactoryConfig

\* C24: setTemplate(id) returns true and makes id the current template for
\* each of the ten template ids of the renderer, and returns false for any
\* other id
C24_TemplateSelection ==
    cfgOp = "setTemplate" =>
        IF cfgArg \in TemplateIds
        THEN cfgRet = TRUE /\ config.currentTemplate = cfgArg
        ELSE cfgRet = FALSE

\* C28: after quickSwitch returned template t, t is the current template and
\* the saved configuration names t as its current template
C28_QuickSwitchConsistent ==
    cfgOp = "quickSwitch" =>
        /\ config.currentTemplate = cfgRet
        /\ configFile # NoFile
        /\ configFile.currentTemplate = cfgRet


\* every readCache of a racing invocation returned a miss or one whole
\* payload that an invocation wrote
CompleteReads ==
    \A p \in DOMAIN ccRead :
        ccRead[p].type = "object" =>
            ccRead[p].chars \in {ccData[q] : q \in DOMAIN ccData} \cup {EarlierPayload}

\* once every invocation has finished, the file holds the text of the
\* invocation whose write completed last
LastWriterWins ==
    ((\A p \in DOMAIN ccPc : ccPc[p] = "done") /\ ccWriters # <<>>) =>
        ccFile.text = JSONtext(ccData[ccWriters[Len(ccWriters)]])

\* C25: invocations racing on one cache key without a lock read a miss or one
\* complete payload that some writer wrote, and once all writers have
\* finished the entry holds the payload of the last writer
C25_ConcurrentCache == CompleteReads /\ LastWriterWins

\* the cron tasks that are running
RunningTasks == {t \in DOMAIN tasks : tasks[t].state = "running"}

\* C29: every running cron task is the task that scheduledJobs records under
\* its job id, with isActive true (so no earlier task of a job id scheduled or
\* started again is running), and right after cleanup no task is running
C29_NoOrphanTasks ==
    /\ \A t \in RunningTasks :
          /\ tasks[t].job \in DOMAIN scheduledJobs
          /\ scheduledJobs[tasks[t].job].task = t
          /\ scheduledJobs[tasks[t].job].isActive
    /\ ntLast = "cleanup" => RunningTasks = {}

\* C30: once the loadConfiguration of the constructor has completed and no
\* save is pending, every subscriber added with addSubscriber is in
\* subscribers and in the saved configuration
C30_SubscriberKept ==
    (ntLoad.at = "done" /\ DOMAIN ntSaves = {}) =>
        \A u \in ntAdded :
            /\ u \in subscribers
            /\ notifFile.type = "file"
            /\ u \in notifFile.subscribers

====
